---------------------------- MODULE Spec2Model ----------------------------
(***************************************************************************)
(* Receiver side of the YMODEM protocol (ymodem.c / ymodem.h).             *)
(*                                                                         *)
(* The session (ymodem_t) is one record; every C function is an operator   *)
(* from the session (and its arguments) to the session it leaves behind    *)
(* and what it returns.  Each API call (ymodem_Init, ymodem_ReceiveByte,   *)
(* ymodem_Abort, ymodem_Reset) is one action.  The serial write function   *)
(* and ymodem_FileCallback are supplied by the application: what the       *)
(* library hands to them in a call is recorded in serialOut and sinkLog,   *)
(* the callback's answer is an input of the action.                        *)
(***************************************************************************)
EXTENDS Integers, Sequences, FiniteSets, TLC

(***************************************************************************)
(* Program constants                                                       *)
(***************************************************************************)
YM_FILE_NAME_LENGTH == 256
YM_FILE_SIZE_LENGTH == 16
YM_RESP_PAYLOAD_LEN == 5
YM_PACKET_SIZE == 128
YM_PACKET_1K_SIZE == 1024
YM_PACKET_SEQNO_INDEX == 1
YM_PACKET_SEQNO_COMP_INDEX == 2
YM_PACKET_HEADER == 3
YM_PACKET_TRAILER == 2
YM_PACKET_OVERHEAD == YM_PACKET_HEADER + YM_PACKET_TRAILER
YM_PACKET_1K_OVRHD_SIZE == YM_PACKET_1K_SIZE + YM_PACKET_OVERHEAD
YM_INSTANCE_INIT_MASK == 82
YM_CRC_POLY == 4129

\* enum YM_CC
SOH == 1
STX == 2
EOT == 4
ACK == 6
NAK == 21
CA == 24
CRC16 == 67
ABORT1 == 65
ABORT2 == 97

\* ymodem_err_e
YMODEM_OK == "YMODEM_OK"
YMODEM_TX_PENDING == "YMODEM_TX_PENDING"
YMODEM_ABORTED == "YMODEM_ABORTED"
YMODEM_WRITE_ERR == "YMODEM_WRITE_ERR"
YMODEM_SIZE_ERR == "YMODEM_SIZE_ERR"
YMODEM_COMPLETE == "YMODEM_COMPLETE"

\* ymodem_file_cb_e
YMODEM_FILE_CB_NAME == "YMODEM_FILE_CB_NAME"
YMODEM_FILE_CB_DATA == "YMODEM_FILE_CB_DATA"
YMODEM_FILE_CB_END == "YMODEM_FILE_CB_END"
YMODEM_FILE_CB_ABORTED == "YMODEM_FILE_CB_ABORTED"

\* ym_ret_t
YM_OK == "YM_OK"
YM_ABORTED == "YM_ABORTED"
YM_ABORT == "YM_ABORT"
YM_WRITE_ERR == "YM_WRITE_ERR"
YM_SIZE_ERR == "YM_SIZE_ERR"
YM_START_RX == "YM_START_RX"
YM_RX_ERROR == "YM_RX_ERROR"
YM_RX_OK == "YM_RX_OK"
YM_RX_COMPLETE == "YM_RX_COMPLETE"
YM_SUCCESS == "YM_SUCCESS"

NULL == "NULL"

(***************************************************************************)
(* C's bitwise operators on non-negative integers                          *)
(***************************************************************************)
\* one bit position at a time
RECURSIVE XorBits(_, _)
XorBits(a, b) ==
    IF a = 0 THEN b
    ELSE IF b = 0 THEN a
    ELSE ((a + b) % 2) + 2 * XorBits(a \div 2, b \div 2)

RECURSIVE AndBits(_, _)
AndBits(a, b) ==
    IF a = 0 \/ b = 0 THEN 0
    ELSE ((a % 2) * (b % 2)) + 2 * AndBits(a \div 2, b \div 2)

\* the same, tabulated by hexadecimal digit (operands below 2^16)
XorTable == [a \in 0..15 |-> [b \in 0..15 |-> XorBits(a, b)]]
AndTable == [a \in 0..15 |-> [b \in 0..15 |-> AndBits(a, b)]]

BitXor(a, b) ==
    XorTable[a % 16][b % 16]
    + 16 * XorTable[(a \div 16) % 16][(b \div 16) % 16]
    + 256 * XorTable[(a \div 256) % 16][(b \div 256) % 16]
    + 4096 * XorTable[a \div 4096][b \div 4096]

BitAnd(a, b) ==
    AndTable[a % 16][b % 16]
    + 16 * AndTable[(a \div 16) % 16][(b \div 16) % 16]
    + 256 * AndTable[(a \div 256) % 16][(b \div 256) % 16]
    + 4096 * AndTable[a \div 4096][b \div 4096]

U8(x) == x % 256
U16(x) == x % 65536

(***************************************************************************)
(* Checksum engine                                                         *)
(***************************************************************************)
crc_update(crc_in, incr) ==
    LET xor == crc_in \div 32768
        out == U16(crc_in * 2)
        out1 == IF incr # 0 THEN U16(out + 1) ELSE out
    IN  IF xor # 0 THEN BitXor(out1, YM_CRC_POLY) ELSE out1

\* for (i = 0x80; i; i >>= 1) crc = crc_update(crc, *data & i);
\* (the eight iterations one after the other: the list of the IF computes
\* each value of crc before the next iteration reads it)
crc16_bits(crc, d, i) ==
    LET b1 == crc_update(crc, BitAnd(d, i))
        b2 == crc_update(b1, BitAnd(d, i \div 2))
        b3 == crc_update(b2, BitAnd(d, i \div 4))
        b4 == crc_update(b3, BitAnd(d, i \div 8))
        b5 == crc_update(b4, BitAnd(d, i \div 16))
        b6 == crc_update(b5, BitAnd(d, i \div 32))
        b7 == crc_update(b6, BitAnd(d, i \div 64))
        b8 == crc_update(b7, BitAnd(d, i \div 128))
    IN  IF \/ d < 0
           \/ b1 < 0
           \/ b2 < 0
           \/ b3 < 0
           \/ b4 < 0
           \/ b5 < 0
           \/ b6 < 0
           \/ b7 < 0
        THEN 0 ELSE b8

\* for (crc = 0; size > 0; size--, data++) ...
\* (the loop over the bytes in order, split in eight runs to bound the
\* nesting; run k starts at data + From(k) and the list of the IF computes
\* the crc after each run before the next run starts)
RECURSIVE crc16_bytes(_, _, _, _)
crc16_bytes(crc, mem, data, size) ==
    IF size = 0 THEN crc
    ELSE IF size = 1 THEN crc16_bits(crc, mem[data], 128)
    ELSE LET run == (size + 7) \div 8
             From(k) == IF k * run < size THEN k * run ELSE size
             Run(from, k) == crc16_bytes(from, mem, data + From(k), From(k + 1) - From(k))
             r1 == Run(crc, 0)
             r2 == Run(r1, 1)
             r3 == Run(r2, 2)
             r4 == Run(r3, 3)
             r5 == Run(r4, 4)
             r6 == Run(r5, 5)
             r7 == Run(r6, 6)
             r8 == Run(r7, 7)
         IN  IF \/ r1 < 0
                \/ r2 < 0
                \/ r3 < 0
                \/ r4 < 0
                \/ r5 < 0
                \/ r6 < 0
                \/ r7 < 0
             THEN 0 ELSE r8

\* for (i = 0; i < 16; i++) crc = crc_update(crc, 0);
\* (eight iterations in each step, computed one after the other)
RECURSIVE crc16_flush(_, _)
crc16_flush(crc, i) ==
    IF i >= 16 THEN crc
    ELSE LET f1 == crc_update(crc, 0)
             f2 == crc_update(f1, 0)
             f3 == crc_update(f2, 0)
             f4 == crc_update(f3, 0)
             f5 == crc_update(f4, 0)
             f6 == crc_update(f5, 0)
             f7 == crc_update(f6, 0)
             f8 == crc_update(f7, 0)
         IN  IF \/ f1 < 0
                \/ f2 < 0
                \/ f3 < 0
                \/ f4 < 0
                \/ f5 < 0
                \/ f6 < 0
                \/ f7 < 0
                \/ f8 < 0
             THEN 0 ELSE crc16_flush(f8, i + 8)

\* crc16 over the size bytes of mem that start at index data
crc16(mem, data, size) ==
    LET crc == crc16_bytes(0, mem, data, size)
    IN  IF crc < 0 THEN 0 ELSE crc16_flush(crc, 0)

\* mutant: the bytes are not swapped
SWAP16_Identity(x) == x

\* (x >> 8) | ((x & 0xff) << 8), stored in a uint16_t
SWAP16(x) == U16((x \div 256) + BitAnd(x, 255) * 256)

(***************************************************************************)
(* uint32_t values (fileSize, the callback's len) are kept as two 16-bit   *)
(* halves, value = hi * 2^16 + lo, so that the arithmetic stays modulo     *)
(* 2^32.                                                                   *)
(***************************************************************************)
U32(n) == [hi |-> (n \div 65536) % 65536, lo |-> n % 65536]

\* val * 10 + d, modulo 2^32
U32MulAdd10(val, d) ==
    LET lo == val.lo * 10 + d
    IN  [hi |-> (val.hi * 10 + lo \div 65536) % 65536, lo |-> lo % 65536]

ISVALIDDEC(c) == (c >= 48) /\ (c <= 57)
CONVERTDEC(c) == c - 48

(***************************************************************************)
(* Decimal parser.  Str2Int(inputstr, intnum) gives [res, intnum]: the     *)
(* returned flag and the value *intnum holds afterwards.                   *)
(***************************************************************************)
\* mutant: the loop gives up one byte earlier
RECURSIVE Str2IntLoop_TenBytes(_, _, _, _)
Str2IntLoop_TenBytes(inputstr, intnum, i, val) ==
    IF i >= 10 THEN [res |-> 0, intnum |-> intnum]
    ELSE IF inputstr[i] = 0 THEN [res |-> 1, intnum |-> val]
    ELSE IF ISVALIDDEC(inputstr[i])
         THEN LET next == U32MulAdd10(val, CONVERTDEC(inputstr[i]))
              IN  IF next.lo < 0 THEN [res |-> 0, intnum |-> intnum]
                  ELSE Str2IntLoop_TenBytes(inputstr, intnum, i + 1, next)
    ELSE [res |-> 0, intnum |-> intnum]

RECURSIVE Str2IntLoop(_, _, _, _)
Str2IntLoop(inputstr, intnum, i, val) ==
    IF i >= 11 THEN [res |-> 0, intnum |-> intnum]
    ELSE IF inputstr[i] = 0 THEN [res |-> 1, intnum |-> val]
    ELSE IF ISVALIDDEC(inputstr[i])
         THEN LET next == U32MulAdd10(val, CONVERTDEC(inputstr[i]))
              IN  IF next.lo < 0 THEN [res |-> 0, intnum |-> intnum]
                  ELSE Str2IntLoop(inputstr, intnum, i + 1, next)
    ELSE [res |-> 0, intnum |-> intnum]

Str2Int(inputstr, intnum) == Str2IntLoop(inputstr, intnum, 0, U32(0))

(***************************************************************************)
(* ymodem_CheckCRC                                                         *)
(***************************************************************************)
\* mutant: the checksum is not verified
CheckCRC_Skipped(ym) == YM_OK

ymodem_CheckCRC(ym) ==
    LET last == (ym.packetSize + YM_PACKET_OVERHEAD) - 1
        sourceCRC == U16(ym.packetData[last] * 256) + ym.packetData[last - 1]
        newCRC == SWAP16(crc16(ym.packetData, YM_PACKET_HEADER, ym.packetSize))
    IN  IF newCRC # sourceCRC THEN YM_RX_ERROR ELSE YM_OK

(***************************************************************************)
(* The application's callback: the library hands it an event, the data     *)
(* pointer and len.  Events are recorded as [e, data, len]; data names the *)
(* session buffer the pointer points into and the offset.                  *)
(***************************************************************************)
Event(e, data, len) == [e |-> e, data |-> data, len |-> len]
Ptr(buf, off) == [buf |-> buf, off |-> off]
NullPtr == Ptr(NULL, 0)

(***************************************************************************)
(* ymodem_ProcessDataPacket: [ym, ret, ev]; err is the callback's answer.  *)
(***************************************************************************)
\* mutant: the callback is always told the length of a short packet
ProcessDataPacket_FixedLen(ym, err) ==
    [ym  |-> [ym EXCEPT !.packetsReceived = ym.packetsReceived + 1],
     ret |-> IF err = YMODEM_OK THEN YM_RX_OK ELSE YM_WRITE_ERR,
     ev  |-> << Event(YMODEM_FILE_CB_DATA, Ptr("packetData", YM_PACKET_HEADER),
                      U32(YM_PACKET_SIZE)) >>,
     oob |-> {}]

\* mutant: an accepted data packet is not counted
ProcessDataPacket_NotCounted(ym, err) ==
    [ym  |-> ym,
     ret |-> IF err = YMODEM_OK THEN YM_RX_OK ELSE YM_WRITE_ERR,
     ev  |-> << Event(YMODEM_FILE_CB_DATA, Ptr("packetData", YM_PACKET_HEADER),
                      U32(ym.packetSize)) >>,
     oob |-> {}]

ymodem_ProcessDataPacket(ym, err) ==
    [ym  |-> [ym EXCEPT !.packetsReceived = ym.packetsReceived + 1],
     ret |-> IF err = YMODEM_OK THEN YM_RX_OK ELSE YM_WRITE_ERR,
     ev  |-> << Event(YMODEM_FILE_CB_DATA, Ptr("packetData", YM_PACKET_HEADER),
                      U32(ym.packetSize)) >>,
     oob |-> {}]

(***************************************************************************)
(* ymodem_ProcessFirstPacket                                               *)
(***************************************************************************)
\* while ((i < limit) && (*filePtr != stop)) dst[i++] = *filePtr++;
\* the value of i after the loop (the loop up to the middle first, then the
\* rest unless it has stopped, to bound the nesting)
RECURSIVE CopyLen(_, _, _, _, _)
CopyLen(mem, filePtr, i, limit, stop) ==
    IF limit - i <= 1
    THEN (IF (i < limit) /\ (mem[filePtr] # stop) THEN i + 1 ELSE i)
    ELSE LET mid == i + (limit - i) \div 2
             first == CopyLen(mem, filePtr, i, mid, stop)
         IN  IF first < mid THEN first
             ELSE CopyLen(mem, filePtr + (mid - i), mid, limit, stop)

\* the rest of the function once the name loop has copied n bytes and the
\* size loop m bytes
FirstPacketParsed(ym, err, n, m) ==
    LET pd == ym.packetData
        \* fileName[i++] = '\0' with i = n
        fileName == [j \in 0..(YM_FILE_NAME_LENGTH - 1) |->
                        IF j < n THEN pd[YM_PACKET_HEADER + j]
                        ELSE IF j = n THEN 0
                        ELSE ym.fileName[j]]
        filePtr == YM_PACKET_HEADER + n + 1
        \* fileSizeStr[0] is written by the loop or by the terminator, also
        \* after fileName[YM_FILE_NAME_LENGTH] = '\0' landed on it
        fileSizeStr == [j \in 0..(YM_FILE_SIZE_LENGTH - 1) |->
                           IF j < m THEN pd[filePtr + j]
                           ELSE IF j = m THEN 0
                           ELSE ym.fileSizeStr[j]]
        \* fileSizeStr[YM_FILE_SIZE_LENGTH] = '\0' lands on packetData[0]
        packetData == IF m = YM_FILE_SIZE_LENGTH THEN [pd EXCEPT ![0] = 0] ELSE pd
        fileSize == Str2Int(fileSizeStr, ym.fileSize).intnum
    IN  [ym  |-> [ym EXCEPT !.fileName = fileName,
                            !.fileSizeStr = fileSizeStr,
                            !.packetData = packetData,
                            !.fileSize = fileSize,
                            !.packetsReceived = ym.packetsReceived + 1],
         ret |-> IF err = YMODEM_OK THEN YM_START_RX ELSE YM_SIZE_ERR,
         ev  |-> << Event(YMODEM_FILE_CB_NAME, Ptr("fileName", 0), fileSize) >>,
         oob |-> (IF n = YM_FILE_NAME_LENGTH THEN {"fileName"} ELSE {})
                 \cup (IF m = YM_FILE_SIZE_LENGTH THEN {"fileSizeStr"} ELSE {})]

FirstPacketNamed(ym, err, n) ==
    FirstPacketParsed(ym, err, n,
        CopyLen(ym.packetData, YM_PACKET_HEADER + n + 1, 0, YM_FILE_SIZE_LENGTH, 32))

\* mutant: an empty first packet is parsed like any other
ProcessFirstPacket_NoEmptyCheck(ym, err) ==
    FirstPacketNamed(ym, err,
        CopyLen(ym.packetData, YM_PACKET_HEADER, 0, YM_FILE_NAME_LENGTH, 0))

ymodem_ProcessFirstPacket(ym, err) ==
    IF ym.packetData[YM_PACKET_HEADER] # 0
    THEN FirstPacketNamed(ym, err,
             CopyLen(ym.packetData, YM_PACKET_HEADER, 0, YM_FILE_NAME_LENGTH, 0))
    ELSE [ym |-> ym, ret |-> YM_ABORT, ev |-> << >>, oob |-> {}]

(***************************************************************************)
(* ymodem_ProcessPacket                                                    *)
(***************************************************************************)
\* mutant: the sequence number is checked before the EOT flag is looked at
ProcessPacket_SeqBeforeEot(ym, err) ==
    IF BitAnd(ym.packetData[YM_PACKET_SEQNO_INDEX], 255)
            # BitAnd(ym.packetsReceived, 255)
    THEN [ym |-> ym, ret |-> YM_RX_ERROR, ev |-> << >>, oob |-> {}]
    ELSE IF ym.eotReceived = 1
    THEN [ym |-> ym, ret |-> YM_SUCCESS,
          ev |-> << Event(YMODEM_FILE_CB_END, NullPtr, U32(0)) >>, oob |-> {}]
    ELSE IF ymodem_CheckCRC(ym) # YM_OK
    THEN [ym |-> ym, ret |-> YM_RX_ERROR, ev |-> << >>, oob |-> {}]
    ELSE IF ym.packetsReceived = 0
    THEN ymodem_ProcessFirstPacket(ym, err)
    ELSE ymodem_ProcessDataPacket(ym, err)

\* mutant: the EOT flag is not looked at
ProcessPacket_EotIgnored(ym, err) ==
    IF BitAnd(ym.packetData[YM_PACKET_SEQNO_INDEX], 255)
            # BitAnd(ym.packetsReceived, 255)
    THEN [ym |-> ym, ret |-> YM_RX_ERROR, ev |-> << >>, oob |-> {}]
    ELSE IF ymodem_CheckCRC(ym) # YM_OK
    THEN [ym |-> ym, ret |-> YM_RX_ERROR, ev |-> << >>, oob |-> {}]
    ELSE IF ym.packetsReceived = 0
    THEN ymodem_ProcessFirstPacket(ym, err)
    ELSE ymodem_ProcessDataPacket(ym, err)

\* mutant: the sequence number is not checked
ProcessPacket_NoSeqCheck(ym, err) ==
    IF ym.eotReceived = 1
    THEN [ym |-> ym, ret |-> YM_SUCCESS,
          ev |-> << Event(YMODEM_FILE_CB_END, NullPtr, U32(0)) >>, oob |-> {}]
    ELSE IF ymodem_CheckCRC(ym) # YM_OK
    THEN [ym |-> ym, ret |-> YM_RX_ERROR, ev |-> << >>, oob |-> {}]
    ELSE IF ym.packetsReceived = 0
    THEN ymodem_ProcessFirstPacket(ym, err)
    ELSE ymodem_ProcessDataPacket(ym, err)

\* mutant: the packet numbered 0 goes to the metadata parser
ProcessPacket_FirstBySeq(ym, err) ==
    IF ym.eotReceived = 1
    THEN [ym |-> ym, ret |-> YM_SUCCESS,
          ev |-> << Event(YMODEM_FILE_CB_END, NullPtr, U32(0)) >>, oob |-> {}]
    ELSE IF BitAnd(ym.packetData[YM_PACKET_SEQNO_INDEX], 255)
                # BitAnd(ym.packetsReceived, 255)
    THEN [ym |-> ym, ret |-> YM_RX_ERROR, ev |-> << >>, oob |-> {}]
    ELSE IF ymodem_CheckCRC(ym) # YM_OK
    THEN [ym |-> ym, ret |-> YM_RX_ERROR, ev |-> << >>, oob |-> {}]
    ELSE IF ym.packetData[YM_PACKET_SEQNO_INDEX] = 0
    THEN ymodem_ProcessFirstPacket(ym, err)
    ELSE ymodem_ProcessDataPacket(ym, err)

ymodem_ProcessPacket(ym, err) ==
    IF ym.eotReceived = 1
    THEN [ym |-> ym, ret |-> YM_SUCCESS,
          ev |-> << Event(YMODEM_FILE_CB_END, NullPtr, U32(0)) >>, oob |-> {}]
    ELSE IF BitAnd(ym.packetData[YM_PACKET_SEQNO_INDEX], 255)
                # BitAnd(ym.packetsReceived, 255)
    THEN [ym |-> ym, ret |-> YM_RX_ERROR, ev |-> << >>, oob |-> {}]
    ELSE IF ymodem_CheckCRC(ym) # YM_OK
    THEN [ym |-> ym, ret |-> YM_RX_ERROR, ev |-> << >>, oob |-> {}]
    ELSE IF ym.packetsReceived = 0
    THEN ymodem_ProcessFirstPacket(ym, err)
    ELSE ymodem_ProcessDataPacket(ym, err)

(***************************************************************************)
(* ymodem_Abort: the session it leaves (it returns YMODEM_ABORTED)         *)
(***************************************************************************)
\* mutant: one cancel byte instead of two
Abort_OneCancel(ym) ==
    [ym EXCEPT !.payloadTx = [ym.payloadTx EXCEPT ![0] = CA],
               !.payloadLen = 1,
               !.nextStatus = YMODEM_ABORTED,
               !.packetsReceived = 0]

\* mutant: the status is left as it was
Abort_StatusKept(ym) ==
    [ym EXCEPT !.payloadTx = [ym.payloadTx EXCEPT ![0] = CA, ![1] = CA],
               !.payloadLen = 2,
               !.packetsReceived = 0]

ymodem_Abort(ym) ==
    [ym EXCEPT !.payloadTx = [ym.payloadTx EXCEPT ![0] = CA, ![1] = CA],
               !.payloadLen = 2,
               !.nextStatus = YMODEM_ABORTED,
               !.packetsReceived = 0]

(***************************************************************************)
(* GenerateResponse: [ym, ret]                                             *)
(***************************************************************************)
SetPayload1(ym, b0) ==
    [ym EXCEPT !.payloadTx = [ym.payloadTx EXCEPT ![0] = b0], !.payloadLen = 1]

\* mutant: only the first byte of a two-byte reply is sent
SetPayload2_OneByte(ym, b0, b1) ==
    [ym EXCEPT !.payloadTx = [ym.payloadTx EXCEPT ![0] = b0, ![1] = b1],
               !.payloadLen = 1]

SetPayload2(ym, b0, b1) ==
    [ym EXCEPT !.payloadTx = [ym.payloadTx EXCEPT ![0] = b0, ![1] = b1],
               !.payloadLen = 2]

GenerateResponse(ym, retVal) ==
    CASE retVal = YM_OK ->
            [ym |-> [ym EXCEPT !.payloadLen = 0], ret |-> YMODEM_OK]
      [] retVal = YM_ABORT ->
            [ym |-> ymodem_Abort(ym), ret |-> YMODEM_TX_PENDING]
      [] retVal = YM_ABORTED ->
            [ym |-> [SetPayload1(ym, CRC16) EXCEPT !.nextStatus = YMODEM_ABORTED],
             ret |-> YMODEM_TX_PENDING]
      [] retVal = YM_WRITE_ERR ->
            [ym |-> [ymodem_Abort(ym) EXCEPT !.nextStatus = YMODEM_WRITE_ERR],
             ret |-> YMODEM_TX_PENDING]
      [] retVal = YM_SIZE_ERR ->
            [ym |-> [ymodem_Abort(ym) EXCEPT !.nextStatus = YMODEM_SIZE_ERR],
             ret |-> YMODEM_TX_PENDING]
      [] retVal = YM_START_RX ->
            [ym |-> SetPayload2(ym, ACK, CRC16), ret |-> YMODEM_TX_PENDING]
      [] retVal = YM_RX_ERROR ->
            [ym |-> SetPayload1(ym, NAK), ret |-> YMODEM_TX_PENDING]
      [] retVal = YM_RX_OK ->
            [ym |-> SetPayload1(ym, ACK), ret |-> YMODEM_TX_PENDING]
      [] retVal = YM_RX_COMPLETE ->
            [ym |-> SetPayload2(ym, ACK, CRC16), ret |-> YMODEM_TX_PENDING]
      [] retVal = YM_SUCCESS ->
            [ym |-> [SetPayload1(ym, ACK) EXCEPT !.nextStatus = YMODEM_COMPLETE],
             ret |-> YMODEM_TX_PENDING]
      [] OTHER ->
            [ym |-> ym, ret |-> YMODEM_ABORTED]

(***************************************************************************)
(* ymodem_WriteSerial: the calls of the serial write function, each the    *)
(* payloadLen bytes of payloadTx it is handed                              *)
(***************************************************************************)
ymodem_WriteSerial(ym) ==
    IF ym.serialWriteFxn # NULL
    THEN << [i \in 1..ym.payloadLen |-> ym.payloadTx[i - 1]] >>
    ELSE << >>

(***************************************************************************)
(* ymodem_ReceiveByte.  FrameByte is the do { } while (0) body: [ym, ret,  *)
(* ev, oob] with ret the internal outcome.                                 *)
(***************************************************************************)
Outcome(ym, ret) == [ym |-> ym, ret |-> ret, ev |-> << >>, oob |-> {}]

\* mutant: the leading byte is not counted
StartPacket_NotCounted(ym, size) ==
    [ym EXCEPT !.packetSize = size, !.startOfPacket = 0]

StartPacket(ym, size) ==
    [ym EXCEPT !.packetSize = size,
               !.startOfPacket = 0,
               !.packetBytes = U16(ym.packetBytes + 1)]

StorePacketByte(ym, c) ==
    [ym EXCEPT !.packetData = [ym.packetData EXCEPT ![ym.packetBytes] = c],
               !.packetBytes = U16(ym.packetBytes + 1)]

EndPacket(ym) == [ym EXCEPT !.startOfPacket = 1, !.packetBytes = 0]

\* after ymodem_ProcessPacket: startOfPacket = 1, packetBytes = 0
Processed(p) == [p EXCEPT !.ym = EndPacket(p.ym)]

\* the last byte of the packet has been stored
PacketComplete(full, err) ==
    IF full.packetData[YM_PACKET_SEQNO_INDEX]
         # BitAnd(BitXor(full.packetData[YM_PACKET_SEQNO_COMP_INDEX], 255), 255)
    THEN Outcome(EndPacket(full), YM_RX_ERROR)
    ELSE Processed(ymodem_ProcessPacket(full, err))

FrameByte(ym, c, err) ==
    IF ym.startOfPacket # 0
    THEN CASE c = SOH -> Outcome(StartPacket(ym, YM_PACKET_SIZE), YM_OK)
           [] c = STX -> Outcome(StartPacket(ym, YM_PACKET_1K_SIZE), YM_OK)
           [] c = EOT -> Outcome([ym EXCEPT !.eotReceived = 1], YM_RX_COMPLETE)
           [] c = CA  -> IF ym.prevC = CA THEN Outcome(ym, YM_ABORTED)
                         ELSE Outcome(ym, YM_OK)
           [] c = ABORT1 \/ c = ABORT2 -> Outcome(ym, YM_ABORT)
           [] OTHER -> Outcome(ym, YM_RX_ERROR)
    ELSE IF ym.packetBytes < (ym.packetSize + YM_PACKET_OVERHEAD) - 1
    THEN Outcome(StorePacketByte(ym, c), YM_OK)
    ELSE PacketComplete(StorePacketByte(ym, c), err)

\* mutant: a status set by this call is returned by this call
Respond_StatusAtOnce(f, g) ==
    [ym |-> g.ym,
     ret |-> IF g.ym.nextStatus # YMODEM_OK THEN g.ym.nextStatus ELSE g.ret,
     tx |-> IF g.ret = YMODEM_TX_PENDING THEN ymodem_WriteSerial(g.ym) ELSE << >>,
     ev |-> f.ev, oob |-> f.oob]

\* the switch on GenerateResponse's result g, after outcome f
Respond(f, g) ==
    CASE g.ret = YMODEM_TX_PENDING ->
            [ym |-> g.ym, ret |-> g.ret, tx |-> ymodem_WriteSerial(g.ym),
             ev |-> f.ev, oob |-> f.oob]
      [] g.ret = YMODEM_ABORTED ->
            [ym |-> g.ym, ret |-> g.ret, tx |-> << >>,
             ev |-> f.ev \o << Event(YMODEM_FILE_CB_ABORTED, NullPtr, U32(0)) >>,
             oob |-> f.oob]
      [] OTHER ->
            [ym |-> g.ym, ret |-> g.ret, tx |-> << >>, ev |-> f.ev, oob |-> f.oob]

\* mutant: prevC is recorded only when the byte was taken without a reply
Framed_PrevCOnOk(f, c) ==
    Respond(f, GenerateResponse(IF f.ret = YM_OK THEN [f.ym EXCEPT !.prevC = c]
                                ELSE f.ym, f.ret))

\* mutant: prevC is not recorded
Framed_PrevCLost(f, c) == Respond(f, GenerateResponse(f.ym, f.ret))

\* ymodem->prevC = c; GenRet = GenerateResponse(ymodem, ret); switch (GenRet)
Framed(f, c) == Respond(f, GenerateResponse([f.ym EXCEPT !.prevC = c], f.ret))

\* mutant: the terminal status is returned, but only after the byte was framed
ReceiveByte_LateStatusCheck(ym, c, err) ==
    IF ym.nextStatus # YMODEM_OK
    THEN [ym |-> [ym EXCEPT !.prevC = c], ret |-> ym.nextStatus, tx |-> << >>,
          ev |-> << >>, oob |-> {}]
    ELSE Framed(FrameByte(ym, c, err), c)

\* [ym, ret, tx, ev, oob]: the session afterwards, the returned status, the
\* serial writes and the callback events of the call
ymodem_ReceiveByte(ym, c, err) ==
    IF ym.nextStatus # YMODEM_OK
    THEN [ym |-> ym, ret |-> ym.nextStatus, tx |-> << >>, ev |-> << >>, oob |-> {}]
    ELSE Framed(FrameByte(ym, c, err), c)

(***************************************************************************)
(* ymodem_Init and ymodem_Reset                                            *)
(***************************************************************************)
Zeroed(n) == [i \in 0..(n - 1) |-> 0]

\* the session object before its first ymodem_Init: zero-filled storage
ZeroSession ==
    [fileName        |-> Zeroed(YM_FILE_NAME_LENGTH),
     fileSizeStr     |-> Zeroed(YM_FILE_SIZE_LENGTH),
     packetData      |-> Zeroed(YM_PACKET_1K_OVRHD_SIZE),
     payloadTx       |-> Zeroed(YM_RESP_PAYLOAD_LEN),
     payloadLen      |-> 0,
     initialized     |-> 0,
     fileSize        |-> U32(0),
     prevC           |-> 0,
     startOfPacket   |-> 0,
     eotReceived     |-> 0,
     packetBytes     |-> 0,
     packetSize      |-> 0,
     packetsReceived |-> 0,
     nextStatus      |-> YMODEM_OK,
     serialWriteFxn  |-> NULL]

\* mutant: no guard against a second initialization
Init_Unguarded(ym, SerialWriteFxn) ==
    [ym EXCEPT !.fileName = Zeroed(YM_FILE_NAME_LENGTH),
               !.fileSizeStr = Zeroed(YM_FILE_SIZE_LENGTH),
               !.packetData = Zeroed(YM_PACKET_1K_OVRHD_SIZE),
               !.fileSize = U32(0),
               !.prevC = 0,
               !.startOfPacket = 1,
               !.packetBytes = 0,
               !.packetSize = 0,
               !.packetsReceived = 0,
               !.eotReceived = 0,
               !.serialWriteFxn = SerialWriteFxn,
               !.nextStatus = YMODEM_OK,
               !.initialized = YM_INSTANCE_INIT_MASK]

ymodem_Init(ym, SerialWriteFxn) ==
    IF ym.initialized = YM_INSTANCE_INIT_MASK
    THEN ym
    ELSE [ym EXCEPT !.fileName = Zeroed(YM_FILE_NAME_LENGTH),
                    !.fileSizeStr = Zeroed(YM_FILE_SIZE_LENGTH),
                    !.packetData = Zeroed(YM_PACKET_1K_OVRHD_SIZE),
                    !.fileSize = U32(0),
                    !.prevC = 0,
                    !.startOfPacket = 1,
                    !.packetBytes = 0,
                    !.packetSize = 0,
                    !.packetsReceived = 0,
                    !.eotReceived = 0,
                    !.serialWriteFxn = SerialWriteFxn,
                    !.nextStatus = YMODEM_OK,
                    !.initialized = YM_INSTANCE_INIT_MASK]

\* the session it leaves (it returns YMODEM_OK)
ymodem_Reset(ym) ==
    [ym EXCEPT !.fileSize = U32(0),
               !.prevC = 0,
               !.startOfPacket = 1,
               !.packetBytes = 0,
               !.packetSize = 0,
               !.packetsReceived = 0,
               !.eotReceived = 0,
               !.nextStatus = YMODEM_OK]

(***************************************************************************)
(* The sender.  A packet on the wire is                                     *)
(*   [lead][seq][comp][payload: 128 or 1024 bytes][crc high][crc low]      *)
(* with the CRC-16/XMODEM of the payload.  The sender computes it the      *)
(* usual byte-wise way (register XOR byte << 8, then eight shifts).        *)
(***************************************************************************)
RECURSIVE XmodemShift(_, _)
XmodemShift(crc, n) ==
    IF n = 0 THEN crc
    ELSE LET next == IF crc >= 32768 THEN BitXor(U16(crc * 2), YM_CRC_POLY)
                     ELSE U16(crc * 2)
         IN  IF next < 0 THEN 0 ELSE XmodemShift(next, n - 1)

RECURSIVE XmodemCRC(_, _, _, _)
XmodemCRC(crc, payload, from, size) ==
    IF size = 0 THEN crc
    ELSE IF size = 1 THEN XmodemShift(BitXor(crc, payload[from] * 256), 8)
    ELSE LET half == size \div 2
             first == XmodemCRC(crc, payload, from, half)
         IN  IF first < 0 THEN 0
             ELSE XmodemCRC(first, payload, from + half, size - half)

\* a payload: the bytes of head, then fill up to the largest packet size
Fill(head, fill) ==
    [i \in 0..(YM_PACKET_1K_SIZE - 1) |-> IF i < Len(head) THEN head[i + 1] ELSE fill]

\* "f" NUL "7" SPACE, zero padding: file f of 7 bytes
MetaPayload == Fill(<<102, 0, 55, 32>>, 0)
\* the empty (closing) packet
EmptyPayload == Fill(<< >>, 0)
\* file data that holds every control byte value
DataPayload == Fill(<<CA, CA, ABORT1, ABORT2, EOT, SOH, STX, 0, 32>>, 165)

\* more file data
MoreDataPayload == Fill(<<49, 50, 51>>, 90)

\* data whose 128-byte checksum is 0xFD18: the packet's last byte is CA
TailPayload == Fill(<<116, 97, 105, 108>>, 13)

\* "f" NUL "7777...": a size field of digits with no space after it
LongSizePayload == Fill(<<102, 0>>, 55)

Payloads ==
    [meta |-> MetaPayload, empty |-> EmptyPayload, data |-> DataPayload,
     more |-> MoreDataPayload, tail |-> TailPayload, long |-> LongSizePayload]

PacketSizeOf(lead) == IF lead = STX THEN YM_PACKET_1K_SIZE ELSE YM_PACKET_SIZE

\* what the sender may get wrong in a packet
Defects == {"none", "crc", "comp", "seq", "cut"}

\* a packet: leading byte, payload, the sequence number it carries, its defect
\* ("crc": the payload byte at index FlipIndex is corrupted in transit; "comp":
\* the complement byte is wrong), and the checksum, once the sender has
\* computed it
Packet(lead, t, seq, defect) ==
    [lead |-> lead, t |-> t, seq |-> seq, defect |-> defect, crc |-> 0]

NoPacket == Packet(0, "empty", 0, "none")

\* the payload byte a "crc" defect corrupts
FlipIndex == 1

\* the sender computes the checksum when it has sent the payload
WithCRC(w, k) ==
    IF k = YM_PACKET_HEADER + PacketSizeOf(w.lead)
    THEN [w EXCEPT !.crc = XmodemCRC(0, Payloads[w.t], 0, PacketSizeOf(w.lead))]
    ELSE w

\* byte number k (k = 0 is the leading byte) of packet w on the wire
PacketByte(w, k) ==
    LET size == PacketSizeOf(w.lead)
    IN  IF k = 0 THEN w.lead
        ELSE IF k = YM_PACKET_SEQNO_INDEX THEN w.seq
        ELSE IF k = YM_PACKET_SEQNO_COMP_INDEX
             THEN (IF w.defect = "comp" THEN U8(256 - w.seq) ELSE 255 - w.seq)
        ELSE IF k < YM_PACKET_HEADER + size
             THEN (IF w.defect = "crc" /\ k = YM_PACKET_HEADER + FlipIndex
                   THEN U8(Payloads[w.t][k - YM_PACKET_HEADER] + 1)
                   ELSE Payloads[w.t][k - YM_PACKET_HEADER])
        ELSE IF k = YM_PACKET_HEADER + size THEN w.crc \div 256
        ELSE w.crc % 256

(***************************************************************************)
(* State                                                                   *)
(***************************************************************************)
VARIABLES
    ymodem,     \* the session (ymodem_t)
    op,         \* the API function called last
    inByte,     \* the byte handed to it (-1: the call takes none)
    ret,        \* what it returned
    serialOut,  \* the serial writes of that call, each a byte sequence
    sinkLog,    \* the ymodem_FileCallback events of that call
    sinkAns,    \* what the callback answered in that call ("none": not called)
    overrun,    \* the session buffers that call wrote past the end of
    wire,       \* the packet the sender is sending or has sent last
    txLog,      \* scripted sender: all serial writes since initialization
    evLog,      \* scripted sender: all callback events since initialization
    script,     \* scripted sender: what it sends and how far it is
    shadow      \* retry scenario: the session that never saw the damaged packet

call == <<op, inByte, ret, serialOut, sinkLog, sinkAns, overrun>>
scenario == <<txLog, evLog, script, shadow>>
vars == <<ymodem, call, wire, scenario>>

\* Bounds
MaxPackets == 2
MaxCallDepth == 3
MaxData == 2

\* no scripted sender
NoScript == [all |-> << >>, at |-> 1, pos |-> 0, sink |-> YMODEM_OK]
\* no retry scenario running
NoShadow == [phase |-> "none"]

SerialWrite == "SerialWrite"
OtherWrite == "OtherWrite"

\* the answers of the application's callback: success, failure
SinkAnswers == {YMODEM_OK, YMODEM_WRITE_ERR}

\* bytes the sender sends between packets besides SOH and STX
ControlBytes == {EOT, CA, ABORT1, ABORT2, NAK}

\* bytes fed to a session that has a terminal status
TerminalBytes == {SOH, CA, 0}

\* the packets the sender starts when the receiver has accepted n packets:
\* each payload intact, a retransmission of the previous number, and data
\* damaged in each way
PacketsAt(n) ==
    {Packet(SOH, t, U8(n), "none") : t \in {"meta", "empty", "data"}}
    \cup {Packet(SOH, "data", U8(n + 255), "seq")}
    \cup {Packet(SOH, t, U8(n), "crc") : t \in {"meta", "data"}}
    \cup {Packet(SOH, "data", U8(n), "comp")}

\* a session initialized once, nothing received yet
Fresh ==
    /\ ymodem = ymodem_Init(ZeroSession, SerialWrite)
    /\ op = "ymodem_Init"
    /\ inByte = -1
    /\ ret = "void"
    /\ serialOut = << >>
    /\ sinkLog = << >>
    /\ sinkAns = "none"
    /\ overrun = {}
    /\ wire = NoPacket
    /\ txLog = << >>
    /\ evLog = << >>
    /\ shadow = NoShadow

Init == Fresh /\ script = NoScript

(***************************************************************************)
(* One call ymodem_ReceiveByte(&ymodem, c), the callback answering err     *)
(***************************************************************************)
Returned(r, c, err) ==
    /\ ymodem' = r.ym
    /\ op' = "ymodem_ReceiveByte"
    /\ inByte' = c
    /\ ret' = r.ret
    /\ serialOut' = r.tx
    /\ sinkLog' = r.ev
    /\ sinkAns' = (IF r.ev # << >> THEN err ELSE "none")
    /\ overrun' = r.oob

Receive(c, err) == Returned(ymodem_ReceiveByte(ymodem, c, err), c, err)

Awaiting == ymodem.nextStatus = YMODEM_OK /\ ymodem.startOfPacket # 0
MidPacket == ymodem.nextStatus = YMODEM_OK /\ ymodem.startOfPacket = 0
LastByteNext ==
    MidPacket /\ ymodem.packetBytes = (ymodem.packetSize + YM_PACKET_OVERHEAD) - 1

\* the sender sends a control byte between packets
ReceiveControlByte ==
    /\ Awaiting
    /\ \E c \in ControlBytes : Receive(c, YMODEM_OK)
    /\ UNCHANGED <<wire, scenario>>

\* the sender starts a packet
ReceivePacketStart ==
    /\ Awaiting
    /\ ymodem.packetsReceived < MaxPackets \/ ymodem.eotReceived = 1
    /\ \E w \in PacketsAt(ymodem.packetsReceived) :
          /\ wire' = w
          /\ Receive(PacketByte(w, 0), YMODEM_OK)
    /\ UNCHANGED scenario

\* the sender sends the next byte of its packet
ReceivePacketByte ==
    /\ MidPacket
    /\ wire' = WithCRC(wire, ymodem.packetBytes)
    /\ \E err \in (IF LastByteNext THEN SinkAnswers ELSE {YMODEM_OK}) :
          Receive(PacketByte(wire', ymodem.packetBytes), err)
    /\ UNCHANGED scenario

\* bytes arrive after the session got a terminal status
ReceiveAfterEnd ==
    /\ ymodem.nextStatus # YMODEM_OK
    /\ \E c \in TerminalBytes : Receive(c, YMODEM_OK)
    /\ UNCHANGED <<wire, scenario>>

(***************************************************************************)
(* The other API calls                                                     *)
(***************************************************************************)
\* a call that takes no byte, writes nothing and calls nothing back
Called(f, r) ==
    /\ op' = f
    /\ inByte' = -1
    /\ ret' = r
    /\ serialOut' = << >>
    /\ sinkLog' = << >>
    /\ sinkAns' = "none"
    /\ overrun' = {}

\* the application calls ymodem_Abort, ymodem_Reset and ymodem_Init between
\* packets, after the end, or within the first MaxCallDepth bytes of a packet
CallPoint == ymodem.packetBytes <= MaxCallDepth

Abort ==
    /\ CallPoint
    /\ ymodem' = ymodem_Abort(ymodem)
    /\ Called("ymodem_Abort", YMODEM_ABORTED)
    /\ UNCHANGED <<wire, scenario>>

Reset ==
    /\ CallPoint
    /\ ymodem' = ymodem_Reset(ymodem)
    /\ Called("ymodem_Reset", YMODEM_OK)
    /\ wire' = NoPacket
    /\ UNCHANGED scenario

\* ymodem_Init called again
InitAgain ==
    /\ CallPoint
    /\ \E fxn \in {SerialWrite, OtherWrite, NULL} : ymodem' = ymodem_Init(ymodem, fxn)
    /\ Called("ymodem_Init", "void")
    /\ UNCHANGED <<wire, scenario>>

Next ==
    \/ ReceiveControlByte
    \/ ReceivePacketStart
    \/ ReceivePacketByte
    \/ ReceiveAfterEnd
    \/ Abort
    \/ Reset
    \/ InitAgain

Spec == Init /\ [][Next]_vars

(***************************************************************************)
(* The scripted sender: it sends the items of script.all in order, byte by *)
(* byte, whatever the receiver answers; an item is a packet or (lead EOT)  *)
(* the single end-of-transmission byte.  The callback answers script.sink. *)
(***************************************************************************)
Leads == {SOH, STX}

EotByte == Packet(EOT, "empty", 0, "none")

\* data packet number i; consecutive packets carry different data
DataPacket(i, lead) ==
    Packet(lead, IF i % 2 = 1 THEN "data" ELSE "more", U8(i), "none")

\* a whole transfer: metadata packet 0, data packets 1..Len(leads), EOT, the
\* closing packet
TransferItems(first, leads, last) ==
    << Packet(first, "meta", 0, "none") >>
    \o [i \in 1..Len(leads) |-> DataPacket(i, leads[i])]
    \o << EotByte, Packet(last, "empty", 0, "none") >>

Scripted(items, sink) == [all |-> items, at |-> 1, pos |-> 0, sink |-> sink]

TransferScripts ==
    {Scripted(TransferItems(first, leads, last), YMODEM_OK) :
        first \in Leads,
        leads \in UNION {[1..n -> Leads] : n \in 0..MaxData},
        last \in Leads}

\* a packet damaged in transit, then the same packet intact
Retried(w) == << [w EXCEPT !.defect = "crc"], w >>

\* the retry scenarios: the damaged packet is the first packet, the first data
\* packet, the second data packet, or the packet after EOT
RetryItems ==
    {Retried(Packet(lead, "meta", 0, "none")) : lead \in Leads}
    \cup {SubSeq(TransferItems(SOH, << >>, SOH), 1, 1)
             \o Retried(DataPacket(1, lead)) : lead \in Leads}
    \cup {SubSeq(TransferItems(STX, <<SOH>>, SOH), 1, 2)
             \o Retried(DataPacket(2, lead)) : lead \in Leads}
    \cup {SubSeq(TransferItems(SOH, << >>, SOH), 1, 2)
             \o Retried(Packet(lead, "data", 1, "none")) : lead \in Leads}

RetryScripts == {Scripted(items, sink) : items \in RetryItems, sink \in SinkAnswers}

ScriptDone == script.at > Len(script.all)
\* the sender gives up a "cut" packet after the byte at index CutAt
CutAt == 5
LastByteOf(w) ==
    IF w.defect = "cut" THEN CutAt ELSE PacketSizeOf(w.lead) + YM_PACKET_OVERHEAD - 1

\* a place in the script where the application calls ymodem_Reset
ResetItem == Packet(-1, "empty", 0, "none")

\* what the callback sees of the events ev of a call that leaves session ym:
\* the event, len, and the first byte data points to (-1: data is NULL)
Observed(ev, ym) ==
    [i \in 1..Len(ev) |->
        [e |-> ev[i].e, len |-> ev[i].len,
         first |-> IF ev[i].data.buf = NULL THEN -1
                   ELSE ym[ev[i].data.buf][ev[i].data.off]]]

\* the shadow session receives the byte as well
ShadowStep(s, r) ==
    [phase |-> IF s.phase = "saved" THEN "retry" ELSE s.phase, from |-> s.from,
     ym |-> r.ym, ret |-> r.ret, tx |-> r.tx, ev |-> r.ev]

\* one more byte of the script goes through ymodem_ReceiveByte.  The session
\* is saved (from) when the damaged packet of a retry scenario starts, and a
\* copy of the saved session (ym) receives the intact packet alongside the
\* real one.
SenderFeedsByte ==
    /\ ~ScriptDone
    /\ script.all[script.at] # ResetItem
    /\ wire' = WithCRC(IF script.pos = 0 THEN script.all[script.at] ELSE wire,
                       script.pos)
    /\ Receive(PacketByte(wire', script.pos), script.sink)
    /\ script' = IF wire'.lead \notin Leads \/ script.pos = LastByteOf(wire')
                 THEN [script EXCEPT !.at = @ + 1, !.pos = 0]
                 ELSE [script EXCEPT !.pos = @ + 1]
    /\ txLog' = txLog \o serialOut'
    /\ evLog' = evLog \o Observed(sinkLog', ymodem')
    /\ shadow' = IF wire'.defect = "crc"
                 THEN (IF script.pos = 0
                       THEN [phase |-> "saved", from |-> ymodem, ym |-> ymodem,
                             tx |-> txLog, ev |-> evLog]
                       ELSE shadow)
                 ELSE IF shadow.phase = "none" THEN shadow
                 ELSE ShadowStep(shadow, ymodem_ReceiveByte(shadow.ym,
                                     PacketByte(wire', script.pos), script.sink))

NextScript == SenderFeedsByte

InitTransfer == Fresh /\ script \in TransferScripts
SpecTransfer == InitTransfer /\ [][NextScript]_vars

InitRetry == Fresh /\ script \in RetryScripts
SpecRetry == InitRetry /\ [][NextScript]_vars

(***************************************************************************)
(* Retransmission scenarios: metadata, data packets 1..n, then data packet *)
(* n once more (the sender did not get the acknowledgment).                *)
(***************************************************************************)
Resent(items) == items \o << items[Len(items)] >>

RetransmitScripts ==
    {Scripted(Resent(SubSeq(TransferItems(SOH, leads, SOH), 1, 1 + Len(leads))),
              YMODEM_OK) :
        leads \in UNION {[1..n -> Leads] : n \in 1..MaxData}}

InitRetransmit == Fresh /\ script \in RetransmitScripts
SpecRetransmit == InitRetransmit /\ [][NextScript]_vars

(***************************************************************************)
(* Reset scenarios: some history, then the application calls ymodem_Reset, *)
(* then the sender sends on.  From the reset on, a freshly initialized     *)
(* session (shadow.ym) receives the same bytes.                            *)
(***************************************************************************)
ScriptedReset ==
    /\ ~ScriptDone
    /\ script.all[script.at] = ResetItem
    /\ ymodem' = ymodem_Reset(ymodem)
    /\ Called("ymodem_Reset", YMODEM_OK)
    /\ wire' = NoPacket
    /\ script' = [script EXCEPT !.at = @ + 1]
    /\ shadow' = [phase |-> "fresh", from |-> ymodem,
                  ym |-> ymodem_Init(ZeroSession, ymodem.serialWriteFxn),
                  ret |-> YMODEM_OK, tx |-> << >>, ev |-> << >>]
    /\ UNCHANGED <<txLog, evLog>>

\* what happened before the reset: nothing; a 1024-byte first packet; the
\* same with a wrong complement byte; a packet given up by the sender;
\* metadata and EOT; an empty first packet (status aborted); a whole
\* transfer (status complete)
ResetHistories ==
    { << >>,
      << Packet(STX, "data", 0, "none") >>,
      << Packet(STX, "data", 0, "comp") >>,
      << Packet(STX, "data", 0, "cut") >>,
      << Packet(SOH, "meta", 0, "none"), EotByte >>,
      << Packet(SOH, "empty", 0, "none") >>,
      TransferItems(SOH, <<SOH>>, SOH) }

\* what is sent after the reset: a whole transfer; a 128-byte first packet
\* whose payload holds no NUL
ResetSequels ==
    { TransferItems(SOH, <<SOH>>, SOH), << Packet(SOH, "more", 0, "none") >> }

ResetScripts ==
    {Scripted(h \o << ResetItem >> \o q, YMODEM_OK) :
        h \in ResetHistories, q \in ResetSequels}

NextReset == SenderFeedsByte \/ ScriptedReset

InitReset == Fresh /\ script \in ResetScripts
SpecReset == InitReset /\ [][NextReset]_vars

(***************************************************************************)
(* Cancel scenarios: CA bytes after a CA, after a rejected byte, after EOT, *)
(* after packets that end in CA or not, accepted or not.                   *)
(***************************************************************************)
CancelByte == Packet(CA, "empty", 0, "none")
NakByte == Packet(NAK, "empty", 0, "none")

CancelItems ==
    { << CancelByte, CancelByte >>,
      << CancelByte, NakByte, CancelByte, CancelByte >>,
      << Packet(SOH, "meta", 0, "none"), Packet(SOH, "tail", 1, "none"),
         CancelByte >>,
      << Packet(SOH, "tail", 0, "comp"), CancelByte >>,
      << Packet(SOH, "meta", 0, "none"), Packet(SOH, "data", 1, "none"),
         CancelByte, EotByte, CancelByte, CancelByte >>,
      << Packet(STX, "data", 0, "none"), CancelByte, CancelByte >>,
      << CancelByte, Packet(SOH, "meta", 0, "none"), CancelByte, CancelByte >> }

CancelScripts == {Scripted(items, sink) : items \in CancelItems, sink \in SinkAnswers}

InitCancel == Fresh /\ script \in CancelScripts
SpecCancel == InitCancel /\ [][NextScript]_vars

(***************************************************************************)
(* Long transfer: metadata, data packets 1..WrapData, a packet that skips  *)
(* a number, the metadata payload under the next number, one more data     *)
(* packet.  A step is a whole packet: the sender's bytes go through        *)
(* ymodem_ReceiveByte one after the other.                                 *)
(***************************************************************************)
WrapData == 255

WrapItems ==
    << Packet(SOH, "meta", 0, "none") >>
    \o [i \in 1..WrapData |-> DataPacket(i, SOH)]
    \o << Packet(SOH, "data", U8(WrapData + 2), "seq"),
          Packet(SOH, "meta", U8(WrapData + 1), "none"),
          DataPacket(WrapData + 2, SOH) >>

\* the calls so far: the last call's result (last), and the serial writes
\* (tx) and the callback events (ev) of all of them
NothingFed(ym) ==
    [last |-> [ym |-> ym, ret |-> YMODEM_OK, tx |-> << >>, ev |-> << >>, oob |-> {}],
     tx |-> << >>, ev |-> << >>]

AlsoFed(acc, r) ==
    [last |-> r, tx |-> acc.tx \o r.tx, ev |-> acc.ev \o Observed(r.ev, r.ym)]

\* the n bytes of packet w from byte k on go through ymodem_ReceiveByte in
\* order (split in eight runs to bound the nesting; run i starts at byte
\* k + From(i) and the list of the IF computes the calls of each run before
\* the next run starts)
RECURSIVE Fed(_, _, _, _, _)
Fed(acc, w, k, n, err) ==
    IF n = 0 THEN acc
    ELSE IF n = 1
    THEN AlsoFed(acc, ymodem_ReceiveByte(acc.last.ym, PacketByte(w, k), err))
    ELSE LET run == (n + 7) \div 8
             From(i) == IF i * run < n THEN i * run ELSE n
             Run(from, i) == Fed(from, w, k + From(i), From(i + 1) - From(i), err)
             r1 == Run(acc, 0)
             r2 == Run(r1, 1)
             r3 == Run(r2, 2)
             r4 == Run(r3, 3)
             r5 == Run(r4, 4)
             r6 == Run(r5, 5)
             r7 == Run(r6, 6)
             r8 == Run(r7, 7)
         IN  IF \/ r1.last.ret = ""
                \/ r2.last.ret = ""
                \/ r3.last.ret = ""
                \/ r4.last.ret = ""
                \/ r5.last.ret = ""
                \/ r6.last.ret = ""
                \/ r7.last.ret = ""
             THEN acc ELSE r8

PacketFed(f, w, err) ==
    /\ Returned(f.last, PacketByte(w, LastByteOf(w)), err)
    /\ txLog' = txLog \o f.tx
    /\ evLog' = evLog \o f.ev

\* the calls for all bytes of w but the last are f; the call for the last
LastByteFed(f, w, err) ==
    PacketFed(AlsoFed(f, ymodem_ReceiveByte(f.last.ym, PacketByte(w, LastByteOf(w)),
                                           err)),
              w, err)

\* shadow keeps the calls that came before the one for the packet's last byte
SenderFeedsPacket ==
    /\ ~ScriptDone
    /\ wire' = WithCRC(script.all[script.at],
                       YM_PACKET_HEADER + PacketSizeOf(script.all[script.at].lead))
    /\ shadow' = [phase |-> "fed",
                  fed |-> Fed(NothingFed(ymodem), wire', 0, LastByteOf(wire'),
                              script.sink)]
    /\ LastByteFed(shadow'.fed, wire', script.sink)
    /\ script' = [script EXCEPT !.at = @ + 1]

NextWrap == SenderFeedsPacket

InitWrap == Fresh /\ script = Scripted(WrapItems, YMODEM_OK)
SpecWrap == InitWrap /\ [][NextWrap]_vars

(***************************************************************************)
(* First-packet scenarios: a first packet of either size whose payload is  *)
(* well-formed metadata, has no NUL, has no space after the size, or is    *)
(* data; and a 128-byte first packet without NUL that follows a refused    *)
(* 1024-byte packet.                                                       *)
(***************************************************************************)
FirstPacketItems ==
    {<< Packet(lead, t, 0, "none") >> :
        lead \in Leads, t \in {"meta", "more", "long", "data"}}
    \cup {<< Packet(STX, "data", 0, "comp"), Packet(SOH, "more", 0, "none") >>}

FirstPacketScripts ==
    {Scripted(items, sink) : items \in FirstPacketItems, sink \in SinkAnswers}

InitFirstPacket == Fresh /\ script \in FirstPacketScripts
SpecFirstPacket == InitFirstPacket /\ [][NextScript]_vars

(***************************************************************************)
(* The checksum functions on their own.  The session holds a complete      *)
(* packet (as when ymodem_ReceiveByte calls ymodem_CheckCRC); crc16 is     *)
(* applied to the first n bytes of its payload, n small or the payload     *)
(* size, and ymodem_CheckCRC to the session.  ret keeps the result.        *)
(***************************************************************************)
MaxCrcLen == 3

\* byte values with the lowest bit, the highest bit, none and all bits set
CrcBytes == {0, 1, 128, 255}
\* the values of the rest of the payload
FillBytes == {0, 255}

\* what the two bytes after the payload hold: the checksum high byte first,
\* low byte first, with one bit wrong in either byte, or zeros
Trailers == {"high-low", "low-high", "high-wrong", "low-wrong", "zero"}

Trailer(crc, kind) ==
    CASE kind = "high-low"   -> << crc \div 256, crc % 256 >>
      [] kind = "low-high"   -> << crc % 256, crc \div 256 >>
      [] kind = "high-wrong" -> << BitXor(crc \div 256, 1), crc % 256 >>
      [] kind = "low-wrong"  -> << crc \div 256, BitXor(crc % 256, 128) >>
      [] OTHER               -> << 0, 0 >>

\* packet number 1 of size bytes as it lies in packetData: payload b1, b2,
\* then b3 throughout, and the trailer
Stored1(size, b1, b2, b3, trailer) ==
    [i \in 0..(YM_PACKET_1K_OVRHD_SIZE - 1) |->
        IF i = YM_PACKET_SEQNO_INDEX THEN 1
        ELSE IF i = YM_PACKET_SEQNO_COMP_INDEX THEN 254
        ELSE IF i = YM_PACKET_HEADER THEN b1
        ELSE IF i = YM_PACKET_HEADER + 1 THEN b2
        ELSE IF i >= YM_PACKET_HEADER + 2 /\ i < YM_PACKET_HEADER + size THEN b3
        ELSE IF i = YM_PACKET_HEADER + size THEN trailer[1]
        ELSE IF i = YM_PACKET_HEADER + size + 1 THEN trailer[2]
        ELSE 0]

Loaded(size, b1, b2, b3, kind) ==
    [ymodem_Init(ZeroSession, SerialWrite) EXCEPT
        !.packetSize = size,
        !.startOfPacket = 0,
        !.packetBytes = size + YM_PACKET_OVERHEAD,
        !.packetsReceived = 1,
        !.packetData =
            Stored1(size, b1, b2, b3,
                    Trailer(XmodemCRC(0, Fill(<<b1, b2>>, b3), 0, size), kind))]

InitChecksum ==
    /\ ymodem \in {Loaded(size, b1, b2, b3, kind) :
                        size \in {YM_PACKET_SIZE, YM_PACKET_1K_SIZE},
                        b1 \in CrcBytes, b2 \in CrcBytes, b3 \in FillBytes,
                        kind \in Trailers}
    /\ op = "ymodem_Init"
    /\ inByte = -1
    /\ ret = "void"
    /\ serialOut = << >>
    /\ sinkLog = << >>
    /\ sinkAns = "none"
    /\ overrun = {}
    /\ wire = NoPacket
    /\ txLog = << >>
    /\ evLog = << >>
    /\ script = NoScript
    /\ shadow = NoShadow

\* nothing has been applied to the stored packet yet
Unchecked == op = "ymodem_Init"

\* crc16(ymodem->packetData + YM_PACKET_HEADER, size)
ApplyCrc16 ==
    /\ Unchecked
    /\ \E size \in (0..MaxCrcLen) \cup {ymodem.packetSize} :
          Called("crc16", [size |-> size,
                           crc |-> crc16(ymodem.packetData, YM_PACKET_HEADER, size)])
    /\ UNCHANGED <<ymodem, wire, scenario>>

\* ymodem_CheckCRC(ymodem)
ApplyCheckCRC ==
    /\ Unchecked
    /\ Called("ymodem_CheckCRC", ymodem_CheckCRC(ymodem))
    /\ UNCHANGED <<ymodem, wire, scenario>>

NextChecksum == ApplyCrc16 \/ ApplyCheckCRC

SpecChecksum == InitChecksum /\ [][NextChecksum]_vars

(***************************************************************************)
(* The decimal parser on its own.  fileSizeStr holds a NUL-terminated      *)
(* string and fileSize an earlier value; Str2Int(ymodem->fileSizeStr,      *)
(* &ymodem->fileSize) is applied once.  ret keeps the returned flag.       *)
(***************************************************************************)
MaxDigits == 12

\* '0', '1', '4', '9'
DigitBytes == {48, 49, 52, 57}
\* '/', ':' (the neighbours of the digits), 'a', space
OtherBytes == {47, 58, 97, 32}

\* n times the byte d, the byte at index at (if any) replaced by c
Repeated(n, d, at, c) == [j \in 1..n |-> IF j = at + 1 THEN c ELSE d]

\* "1024", "12a", 2^32 - 1, 2^32
NamedTexts ==
    { <<49, 48, 50, 52>>, <<49, 50, 97>>,
      <<52, 50, 57, 52, 57, 54, 55, 50, 57, 53>>,
      <<52, 50, 57, 52, 57, 54, 55, 50, 57, 54>> }

SizeTexts ==
    {Repeated(n, d, -1, d) : n \in 0..MaxDigits, d \in DigitBytes}
    \cup {Repeated(n, d, at, c) :
             n \in 1..MaxDigits, d \in {49, 57}, at \in 0..(MaxDigits - 1),
             c \in OtherBytes}
    \cup NamedTexts

\* text, its terminator, and what an earlier string left behind it
SizeBuffer(text, rest) ==
    [j \in 0..(YM_FILE_SIZE_LENGTH - 1) |->
        IF j < Len(text) THEN text[j + 1]
        ELSE IF j = Len(text) THEN 0
        ELSE rest]

InitStr2Int ==
    /\ ymodem \in {[ymodem_Init(ZeroSession, SerialWrite) EXCEPT
                        !.fileSizeStr = SizeBuffer(text, rest),
                        !.fileSize = U32(before)] :
                        text \in SizeTexts, rest \in {0, 57}, before \in {0, 7}}
    /\ op = "ymodem_Init"
    /\ inByte = -1
    /\ ret = "void"
    /\ serialOut = << >>
    /\ sinkLog = << >>
    /\ sinkAns = "none"
    /\ overrun = {}
    /\ wire = NoPacket
    /\ txLog = << >>
    /\ evLog = << >>
    /\ script = NoScript
    /\ shadow = NoShadow

Str2IntApplied(r) ==
    /\ ymodem' = [ymodem EXCEPT !.fileSize = r.intnum]
    /\ Called("Str2Int", r.res)

\* Str2Int(ymodem->fileSizeStr, &ymodem->fileSize)
ApplyStr2Int ==
    /\ op = "ymodem_Init"
    /\ Str2IntApplied(Str2Int(ymodem.fileSizeStr, ymodem.fileSize))
    /\ UNCHANGED <<wire, scenario>>

NextStr2Int == ApplyStr2Int

SpecStr2Int == InitStr2Int /\ [][NextStr2Int]_vars

(***************************************************************************)
(* The sender of Spec and a session initialized with a serial write        *)
(* function or with NULL; the application calls ymodem_ReceiveByte only.   *)
(***************************************************************************)
InitTransport ==
    /\ ymodem \in {ymodem_Init(ZeroSession, fxn) : fxn \in {SerialWrite, NULL}}
    /\ op = "ymodem_Init"
    /\ inByte = -1
    /\ ret = "void"
    /\ serialOut = << >>
    /\ sinkLog = << >>
    /\ sinkAns = "none"
    /\ overrun = {}
    /\ wire = NoPacket
    /\ txLog = << >>
    /\ evLog = << >>
    /\ script = NoScript
    /\ shadow = NoShadow

NextTransport ==
    \/ ReceiveControlByte
    \/ ReceivePacketStart
    \/ ReceivePacketByte
    \/ ReceiveAfterEnd

SpecTransport == InitTransport /\ [][NextTransport]_vars

(***************************************************************************)
(* Event scenarios: a whole transfer; a whole transfer and a packet after  *)
(* it; EOT before any packet, then a data or a metadata packet; metadata   *)
(* sent twice; two EOT bytes in mid-transfer.  evLog holds the events of   *)
(* the session.                                                            *)
(***************************************************************************)
EventItems ==
    { TransferItems(SOH, <<SOH>>, SOH),
      TransferItems(SOH, <<SOH>>, SOH) \o << Packet(SOH, "meta", 0, "none") >>,
      << EotByte, Packet(SOH, "data", 0, "none") >>,
      << EotByte, Packet(SOH, "meta", 0, "none") >>,
      << Packet(SOH, "meta", 0, "none"), Packet(SOH, "meta", 0, "none"),
         Packet(SOH, "meta", 1, "none") >>,
      << Packet(SOH, "meta", 0, "none"), EotByte, EotByte,
         Packet(SOH, "data", 1, "none"), Packet(SOH, "data", 1, "none") >> }

EventScripts == {Scripted(items, sink) : items \in EventItems, sink \in SinkAnswers}

InitEvents == Fresh /\ script \in EventScripts
SpecEvents == InitEvents /\ [][NextScript]_vars

(***************************************************************************)
(* Vocabulary of the properties                                            *)
(***************************************************************************)
Nominal == ymodem.nextStatus = YMODEM_OK
ReceiveByteCall == op' = "ymodem_ReceiveByte"
Untouched == ymodem' = ymodem /\ serialOut' = << >> /\ sinkLog' = << >>

\* the complete packet in ym's buffer, checked as the protocol defines it
CompOk(ym) ==
    ym.packetData[YM_PACKET_SEQNO_INDEX] + ym.packetData[YM_PACKET_SEQNO_COMP_INDEX] = 255
SeqOk(ym, n) == ym.packetData[YM_PACKET_SEQNO_INDEX] = n % 256
CrcOk(ym) ==
    XmodemCRC(0, ym.packetData, YM_PACKET_HEADER, ym.packetSize)
        = ym.packetData[YM_PACKET_HEADER + ym.packetSize] * 256
          + ym.packetData[YM_PACKET_HEADER + ym.packetSize + 1]
WellFormed(ym, n) == CompOk(ym) /\ SeqOk(ym, n) /\ CrcOk(ym)

\* this step hands the last byte of a packet to a nominal session
CompletesPacket == LastByteNext /\ ReceiveByteCall

Sent(bytes) == serialOut' = << bytes >>
Notified(log, e) == \E i \in DOMAIN log : log[i].e = e

(***************************************************************************)
(* C1: once the terminal status is not YMODEM_OK, every ymodem_ReceiveByte *)
(* call, whatever the byte, returns that status and does nothing else: no  *)
(* session field changes (prevC and the packet buffer included), no        *)
(* callback event, no serial write; so the status stays through any number *)
(* of such calls (and of repeated ymodem_Init calls).                      *)
(***************************************************************************)
C1_StickyStatus ==
    [][ (~Nominal /\ ReceiveByteCall
            => ret' = ymodem.nextStatus /\ Untouched)
        /\ (~Nominal /\ op' \notin {"ymodem_Reset", "ymodem_Abort"}
            => ymodem'.nextStatus = ymodem.nextStatus) ]_vars

\* a byte that differs from prevC was fed to a completed session and ignored
C1_Witness ==
    /\ op = "ymodem_ReceiveByte"
    /\ ret = YMODEM_COMPLETE
    /\ inByte = SOH
    /\ ymodem.prevC # SOH
    /\ ymodem.startOfPacket = 1

(***************************************************************************)
(* C2: a scripted transfer (metadata packet 0, n data packets 1..n, EOT,   *)
(* closing packet 0 with an all-zero payload; callback always accepting),  *)
(* once all its bytes are fed to a fresh session, has left the terminal    *)
(* status YMODEM_COMPLETE, the callback events name, n times data in       *)
(* packet order, end, and the serial writes ACK C, n times ACK, ACK C, ACK.*)
(***************************************************************************)
DataCount == Len(script.all) - 3

ExpectedReplies ==
    << <<ACK, CRC16>> >> \o [i \in 1..DataCount |-> <<ACK>>]
    \o << <<ACK, CRC16>>, <<ACK>> >>

ExpectedEvents ==
    << [e |-> YMODEM_FILE_CB_NAME, len |-> U32(7), first |-> MetaPayload[0]] >>
    \o [i \in 1..DataCount |->
           [e |-> YMODEM_FILE_CB_DATA,
            len |-> U32(PacketSizeOf(script.all[i + 1].lead)),
            first |-> Payloads[script.all[i + 1].t][0]]]
    \o << [e |-> YMODEM_FILE_CB_END, len |-> U32(0), first |-> -1] >>

C2_Transfer ==
    ScriptDone =>
        /\ ymodem.nextStatus = YMODEM_COMPLETE
        /\ evLog = ExpectedEvents
        /\ txLog = ExpectedReplies

\* a transfer of MaxData data packets, 128 and 1024 bytes, has completed
C2_Witness ==
    /\ ScriptDone
    /\ DataCount = MaxData
    /\ \E i, j \in 2..(1 + DataCount) :
          script.all[i].lead = SOH /\ script.all[j].lead = STX
    /\ ymodem.nextStatus = YMODEM_COMPLETE
    /\ Len(evLog) = MaxData + 2

(***************************************************************************)
(* Reference reading of a first-packet payload: the file name up to its    *)
(* NUL, then decimal digits up to the space.                               *)
(***************************************************************************)
\* the index of the first byte stop in mem at or after index from
RECURSIVE Find(_, _, _)
Find(mem, from, stop) ==
    IF mem[from] = stop THEN from ELSE Find(mem, from + 1, stop)

\* the number the digits mem[from], .., mem[to - 1] write
RECURSIVE Decimal(_, _, _, _)
Decimal(mem, from, to, acc) ==
    IF from >= to THEN acc
    ELSE Decimal(mem, from + 1, to, acc * 10 + (mem[from] - 48))

\* session ym holds the name and the size that its packet buffer carries, the
\* name ending at index nul of the buffer and the size at index sp
HoldsNameAndSize(ym, nul, sp) ==
    /\ \A j \in 0..(nul - YM_PACKET_HEADER) :
          ym.fileName[j] = ym.packetData[YM_PACKET_HEADER + j]
    /\ ym.fileSize = U32(Decimal(ym.packetData, nul + 1, sp, 0))

HoldsName(ym, nul) == HoldsNameAndSize(ym, nul, Find(ym.packetData, nul + 1, 32))
HoldsMetadata(ym) == HoldsName(ym, Find(ym.packetData, YM_PACKET_HEADER, 0))

\* this step completes a well-formed 128-byte packet that carries the expected
\* number, on a nominal session that has seen no EOT
Completes128 ==
    /\ CompletesPacket
    /\ ymodem.packetSize = YM_PACKET_SIZE
    /\ ymodem.eotReceived = 0
    /\ WellFormed(ymodem', ymodem.packetsReceived)

\* the reply and the effects of an accepted first packet
FirstPacketAccepted ==
    /\ Sent(<<ACK, CRC16>>)
    /\ ret' = YMODEM_TX_PENDING
    /\ ymodem'.packetsReceived = 1
    /\ sinkLog' = << Event(YMODEM_FILE_CB_NAME, Ptr("fileName", 0), ymodem'.fileSize) >>
    /\ HoldsMetadata(ymodem')

\* the reply and the effects of an accepted data packet
DataPacketAccepted ==
    /\ Sent(<<ACK>>)
    /\ ret' = YMODEM_TX_PENDING
    /\ ymodem'.packetsReceived = ymodem.packetsReceived + 1
    /\ sinkLog' = << Event(YMODEM_FILE_CB_DATA, Ptr("packetData", YM_PACKET_HEADER),
                           U32(YM_PACKET_SIZE)) >>

PacketAccepted ==
    IF ymodem.packetsReceived = 0 THEN FirstPacketAccepted ELSE DataPacketAccepted

(***************************************************************************)
(* C3 as stated: every well-formed 128-byte packet with the expected       *)
(* sequence number, complement and checksum is accepted: ACK, or for the   *)
(* first packet ACK C, packetsReceived = 1 and the name event.  (It fails: *)
(* a first packet whose payload starts with a zero byte is answered CA CA, *)
(* and so is any packet the callback rejects.)                             *)
(***************************************************************************)
C3_Original == [][ Completes128 => PacketAccepted ]_vars

(***************************************************************************)
(* C3: a well-formed 128-byte packet with the expected sequence number,    *)
(* complement and checksum, whose payload does not start with a zero byte  *)
(* when it is the first packet, and which the callback does not reject, is *)
(* accepted: the reply is exactly ACK and the data event is delivered, or, *)
(* for the first packet, exactly ACK C, packetsReceived becomes 1 and the  *)
(* name event carries the parsed file name and size.                       *)
(***************************************************************************)
C3_WellFormedAccepted ==
    [][ /\ Completes128
        /\ sinkAns' # YMODEM_WRITE_ERR
        /\ (ymodem.packetsReceived = 0 => ymodem'.packetData[YM_PACKET_HEADER] # 0)
        => PacketAccepted ]_vars

\* the metadata packet (file f, 7 bytes) has been accepted as first packet
C3_Witness ==
    /\ op = "ymodem_ReceiveByte"
    /\ wire.t = "meta"
    /\ serialOut = << <<ACK, CRC16>> >>
    /\ ymodem.packetsReceived = 1
    /\ Notified(sinkLog, YMODEM_FILE_CB_NAME)
    /\ ymodem.fileName[0] = 102 /\ ymodem.fileName[1] = 0
    /\ ymodem.fileSize = U32(7)

(***************************************************************************)
(* C4 as stated: in any session state awaiting a packet, a packet that is  *)
(* valid except for its checksum is answered with exactly NAK, changes     *)
(* neither packetsReceived nor the terminal status and causes no callback  *)
(* event, and the intact packet fed right afterwards gets the reply, event *)
(* and packetsReceived it would have got without the damaged one.  (It     *)
(* fails after EOT: the damaged packet is taken as the closing packet.)    *)
(***************************************************************************)
\* the session was awaiting a packet when the damaged packet started
AwaitedPacket ==
    shadow.from.nextStatus = YMODEM_OK /\ shadow.from.startOfPacket # 0

\* the damaged packet has just been received completely
DamagedReceived ==
    /\ shadow.phase = "saved" /\ script.pos = 0 /\ wire.defect = "crc"
    /\ AwaitedPacket

\* the intact packet is being received after it
Retrying == shadow.phase = "retry" /\ AwaitedPacket

\* it was answered NAK and changed nothing else
Refused ==
    /\ txLog = shadow.tx \o << <<NAK>> >>
    /\ evLog = shadow.ev
    /\ ymodem.packetsReceived = shadow.from.packetsReceived
    /\ ymodem.nextStatus = shadow.from.nextStatus

\* the session receiving the retry behaves as the one that never saw the
\* damaged packet
SameAsFirstAttempt ==
    /\ ret = shadow.ret
    /\ serialOut = shadow.tx
    /\ sinkLog = shadow.ev
    /\ ymodem.packetsReceived = shadow.ym.packetsReceived
    /\ ymodem.nextStatus = shadow.ym.nextStatus

C4_Original ==
    /\ DamagedReceived => Refused
    /\ Retrying => SameAsFirstAttempt

(***************************************************************************)
(* C4: in a session that awaits a packet and has seen no EOT, a packet     *)
(* that is valid except for its checksum is answered with exactly NAK,     *)
(* changes neither packetsReceived nor the terminal status and causes no   *)
(* callback event; the intact packet fed right afterwards then gets, byte  *)
(* for byte, the return value, reply, callback event and packetsReceived   *)
(* of a session that never saw the damaged packet.                         *)
(***************************************************************************)
C4_ChecksumRetry ==
    /\ DamagedReceived /\ shadow.from.eotReceived = 0 => Refused
    /\ Retrying /\ shadow.from.eotReceived = 0 => SameAsFirstAttempt

\* the retry of the damaged first data packet has been accepted
C4_Witness ==
    /\ ScriptDone
    /\ shadow.phase = "retry"
    /\ wire.seq = 1 /\ wire.defect = "none"
    /\ ymodem.packetsReceived = 2
    /\ txLog = << <<ACK, CRC16>>, <<NAK>>, <<ACK>> >>
    /\ Len(evLog) = 2 /\ evLog[2].e = YMODEM_FILE_CB_DATA

(***************************************************************************)
(* C5: packetsReceived increases only in a ymodem_ReceiveByte call that    *)
(* completes a packet (no EOT seen) which passes the complement, sequence  *)
(* and checksum checks; and every call that ends in a receive error (an    *)
(* unrecognized leading byte, a complement mismatch, or - validation not   *)
(* being skipped after EOT - a sequence or checksum mismatch) replies      *)
(* exactly NAK, leaves the status YMODEM_OK and packetsReceived unchanged, *)
(* calls nothing back and leaves the framer awaiting a packet start.       *)
(***************************************************************************)
UnrecognizedLead ==
    Awaiting /\ ReceiveByteCall /\ inByte' \notin {SOH, STX, EOT, CA, ABORT1, ABORT2}

InvalidPacket ==
    /\ CompletesPacket
    /\ \/ ~CompOk(ymodem')
       \/ ymodem.eotReceived = 0 /\ ~WellFormed(ymodem', ymodem.packetsReceived)

Recovered ==
    /\ Sent(<<NAK>>)
    /\ ret' = YMODEM_TX_PENDING
    /\ ymodem'.nextStatus = YMODEM_OK
    /\ ymodem'.packetsReceived = ymodem.packetsReceived
    /\ ymodem'.eotReceived = ymodem.eotReceived
    /\ ymodem'.startOfPacket = 1 /\ ymodem'.packetBytes = 0
    /\ sinkLog' = << >>

C5_SequenceAdvance ==
    [][ /\ ymodem'.packetsReceived > ymodem.packetsReceived
            => /\ CompletesPacket
               /\ ymodem.eotReceived = 0
               /\ WellFormed(ymodem', ymodem.packetsReceived)
               /\ ymodem'.packetsReceived = ymodem.packetsReceived + 1
        /\ UnrecognizedLead \/ InvalidPacket => Recovered ]_vars

\* a retransmission of the packet accepted before has been refused
C5_Witness ==
    /\ op = "ymodem_ReceiveByte"
    /\ wire.defect = "seq"
    /\ serialOut = << <<NAK>> >>
    /\ ymodem.packetsReceived = 1
    /\ ymodem.startOfPacket = 1
    /\ ymodem.nextStatus = YMODEM_OK

(***************************************************************************)
(* C6: in a nominal session awaiting a packet start, a CA byte that is not *)
(* preceded by CA has no visible effect, and a CA byte preceded by CA      *)
(* makes ymodem_ReceiveByte send exactly the byte C and set the terminal   *)
(* status to aborted; the ymodem_ReceiveByte call after that returns       *)
(* YMODEM_ABORTED and processes nothing.                                   *)
(***************************************************************************)
CancelArrives == Awaiting /\ ReceiveByteCall /\ inByte' = CA
CancelConfirmed == op = "ymodem_ReceiveByte" /\ serialOut = << <<CRC16>> >>

C6_DoubleCancel ==
    [][ /\ CancelArrives /\ ymodem.prevC # CA
            => ret' = YMODEM_OK /\ serialOut' = << >> /\ sinkLog' = << >>
               /\ ymodem'.prevC = CA /\ ymodem'.nextStatus = YMODEM_OK
               /\ ymodem'.startOfPacket = 1
        /\ CancelArrives /\ ymodem.prevC = CA
            => Sent(<<CRC16>>) /\ ymodem'.nextStatus = YMODEM_ABORTED
        /\ CancelConfirmed /\ ReceiveByteCall
            => ret' = YMODEM_ABORTED /\ Untouched ]_vars

\* after the double cancel in mid-transfer, a packet start has been ignored
C6_Witness ==
    /\ op = "ymodem_ReceiveByte"
    /\ inByte = SOH
    /\ ret = YMODEM_ABORTED
    /\ ymodem.prevC = CA
    /\ ymodem.payloadLen = 1 /\ ymodem.payloadTx[0] = CRC16
    /\ ymodem.packetsReceived = 1

(***************************************************************************)
(* C7 as stated: the callback receives YMODEM_FILE_CB_ABORTED in the       *)
(* ymodem_ReceiveByte call that confirms the sender's double cancel, and   *)
(* in no other call.  (It fails: that call sends C and calls nothing       *)
(* back.)                                                                  *)
(***************************************************************************)
C7_AbortedNotification ==
    [][ Notified(sinkLog', YMODEM_FILE_CB_ABORTED)
            <=> (CancelArrives /\ ymodem.prevC = CA) ]_vars

\* the double cancel has been confirmed and the callback was not called
C7_Witness ==
    /\ CancelConfirmed
    /\ ymodem.nextStatus = YMODEM_ABORTED
    /\ sinkLog = << >>
    /\ sinkAns = "none"

(***************************************************************************)
(* C8: a ymodem_ReceiveByte call on a nominal session that gets 'A' or 'a' *)
(* while awaiting a packet start sends exactly CA CA and sets the status   *)
(* aborted; one whose name event the callback rejects sends exactly CA CA  *)
(* and sets size-error; one whose data event the callback fails sends      *)
(* exactly CA CA and sets write-error; and no call sets one of these       *)
(* statuses without sending CA CA, the confirmed double cancel excepted.   *)
(***************************************************************************)
C8_LocalAbort ==
    [][ Nominal /\ ReceiveByteCall =>
          /\ Awaiting /\ inByte' \in {ABORT1, ABORT2}
                => Sent(<<CA, CA>>) /\ ymodem'.nextStatus = YMODEM_ABORTED
          /\ Notified(sinkLog', YMODEM_FILE_CB_NAME) /\ sinkAns' # YMODEM_OK
                => Sent(<<CA, CA>>) /\ ymodem'.nextStatus = YMODEM_SIZE_ERR
          /\ Notified(sinkLog', YMODEM_FILE_CB_DATA) /\ sinkAns' # YMODEM_OK
                => Sent(<<CA, CA>>) /\ ymodem'.nextStatus = YMODEM_WRITE_ERR
          /\ ymodem'.nextStatus \in {YMODEM_ABORTED, YMODEM_SIZE_ERR, YMODEM_WRITE_ERR}
                => Sent(<<CA, CA>>) \/ (CancelArrives /\ ymodem.prevC = CA) ]_vars

\* the callback has failed a data event
C8_Witness ==
    /\ op = "ymodem_ReceiveByte"
    /\ Notified(sinkLog, YMODEM_FILE_CB_DATA)
    /\ sinkAns = YMODEM_WRITE_ERR
    /\ serialOut = << <<CA, CA>> >>
    /\ ymodem.nextStatus = YMODEM_WRITE_ERR

(***************************************************************************)
(* C9: a packet that passes the complement, sequence (0, on a session with *)
(* packetsReceived = 0 and no EOT seen) and checksum checks and whose      *)
(* payload begins with a zero byte makes ymodem_ReceiveByte send exactly   *)
(* CA CA and set the status aborted; the callback is not called, and       *)
(* fileName, fileSizeStr and fileSize keep their values.                   *)
(***************************************************************************)
C9_EmptyFirstPacket ==
    [][ /\ CompletesPacket
        /\ ymodem.eotReceived = 0
        /\ ymodem.packetsReceived = 0
        /\ ymodem'.packetData[YM_PACKET_HEADER] = 0
        /\ WellFormed(ymodem', 0)
        => /\ Sent(<<CA, CA>>)
           /\ ret' = YMODEM_TX_PENDING
           /\ ymodem'.nextStatus = YMODEM_ABORTED
           /\ sinkLog' = << >>
           /\ ymodem'.fileName = ymodem.fileName
           /\ ymodem'.fileSizeStr = ymodem.fileSizeStr
           /\ ymodem'.fileSize = ymodem.fileSize ]_vars

\* the empty packet came first in a session that was reset after it had
\* received the metadata of file f
C9_Witness ==
    /\ op = "ymodem_ReceiveByte"
    /\ wire.t = "empty" /\ wire.defect = "none"
    /\ serialOut = << <<CA, CA>> >>
    /\ ymodem.nextStatus = YMODEM_ABORTED
    /\ ymodem.eotReceived = 0
    /\ sinkLog = << >>
    /\ ymodem.fileName[0] = 102
    /\ ymodem.fileSize = U32(7)

(***************************************************************************)
(* C10 as stated: ymodem_Abort hands the two CA bytes to the serial write  *)
(* function, sets the status aborted and returns YMODEM_ABORTED.  (It      *)
(* fails: ymodem_Abort makes no serial write.)                             *)
(***************************************************************************)
C10_Original ==
    [][ op' = "ymodem_Abort"
            => Sent(<<CA, CA>>)
               /\ ymodem'.nextStatus = YMODEM_ABORTED /\ ret' = YMODEM_ABORTED ]_vars

(***************************************************************************)
(* C10: ymodem_Abort, called in any state, puts the two CA bytes into      *)
(* payloadTx with payloadLen = 2 without calling the serial write function *)
(* or the callback, sets the status aborted (and packetsReceived to 0) and *)
(* returns YMODEM_ABORTED; ymodem_ReceiveByte calls made while the status  *)
(* is aborted return YMODEM_ABORTED and do nothing.                        *)
(***************************************************************************)
C10_AbortCall ==
    [][ /\ op' = "ymodem_Abort"
            => /\ serialOut' = << >> /\ sinkLog' = << >>
               /\ ymodem'.payloadTx[0] = CA /\ ymodem'.payloadTx[1] = CA
               /\ ymodem'.payloadLen = 2
               /\ ymodem'.nextStatus = YMODEM_ABORTED
               /\ ymodem'.packetsReceived = 0
               /\ ret' = YMODEM_ABORTED
        /\ ymodem.nextStatus = YMODEM_ABORTED /\ ReceiveByteCall
            => ret' = YMODEM_ABORTED /\ Untouched ]_vars

\* ymodem_Abort was called in mid-packet, and a byte fed afterwards ignored
C10_Witness ==
    /\ op = "ymodem_ReceiveByte"
    /\ ret = YMODEM_ABORTED
    /\ ymodem.startOfPacket = 0
    /\ ymodem.packetBytes > 0
    /\ ymodem.payloadLen = 2 /\ ymodem.payloadTx[0] = CA /\ ymodem.payloadTx[1] = CA

(***************************************************************************)
(* What the callback can read of an event handed to it by a call that      *)
(* leaves session ym: the file name as a C string (name event), the len    *)
(* bytes data points to (data event).                                      *)
(***************************************************************************)
\* the index of the first NUL of buf at or after i, the length of buf if none
RECURSIVE StrEnd(_, _, _)
StrEnd(buf, i, length) ==
    IF i >= length \/ buf[i] = 0 THEN i ELSE StrEnd(buf, i + 1, length)

Bytes(buf, from, n) == [j \in 1..n |-> buf[from + j - 1]]

Content(ev, ym) ==
    IF ev.e = YMODEM_FILE_CB_NAME
    THEN Bytes(ym.fileName, 0, StrEnd(ym.fileName, 0, YM_FILE_NAME_LENGTH))
    ELSE IF ev.e = YMODEM_FILE_CB_DATA
    THEN Bytes(ym.packetData, ev.data.off, ev.len.lo)
    ELSE << >>

Heard(log, ym) ==
    [i \in 1..Len(log) |->
        [e |-> log[i].e, len |-> log[i].len, content |-> Content(log[i], ym)]]

(***************************************************************************)
(* C11 as stated: ymodem_Reset, called in any state, returns YMODEM_OK,    *)
(* leaves serialWriteFxn unchanged and leaves the session awaiting a       *)
(* packet start with packetsReceived = 0, eotReceived = 0, prevC = 0 and   *)
(* status YMODEM_OK; and every byte fed after it gets the return value,    *)
(* the serial writes and the callback events (event, len and the content   *)
(* the callback can read) that a freshly initialized session gives.  (It   *)
(* fails: ymodem_Reset does not clear packetData, and the name parser      *)
(* reads past the payload of a first packet that holds no NUL.)            *)
(***************************************************************************)
AfterReset == shadow.phase = "fresh"

C11_ResetEquivalence ==
    /\ op = "ymodem_Reset"
        => /\ ret = YMODEM_OK
           /\ ymodem.serialWriteFxn = shadow.from.serialWriteFxn
           /\ Awaiting
           /\ ymodem.packetBytes = 0
           /\ ymodem.packetsReceived = 0
           /\ ymodem.eotReceived = 0
           /\ ymodem.prevC = 0
    /\ AfterReset /\ op = "ymodem_ReceiveByte"
        => /\ ret = shadow.ret
           /\ serialOut = shadow.tx
           /\ Heard(sinkLog, ymodem) = Heard(shadow.ev, shadow.ym)

\* after the reset the callback got a file name that the fresh session does
\* not give: it runs on into what an earlier packet left in packetData
C11_Witness ==
    /\ AfterReset
    /\ Notified(sinkLog, YMODEM_FILE_CB_NAME)
    /\ wire.t = "more"
    /\ StrEnd(ymodem.fileName, 0, YM_FILE_NAME_LENGTH) = YM_FILE_NAME_LENGTH
    /\ StrEnd(shadow.ym.fileName, 0, YM_FILE_NAME_LENGTH)
          <= YM_PACKET_SIZE + YM_PACKET_TRAILER

(***************************************************************************)
(* C12 as stated: a data packet sent again with the sequence number of the *)
(* data packet accepted last passes the sequence check again and is        *)
(* delivered to the callback a second time.  (It fails: packetsReceived    *)
(* has advanced, so the number no longer matches.)                         *)
(***************************************************************************)
C12_Original ==
    ScriptDone => Notified(sinkLog, YMODEM_FILE_CB_DATA)

(***************************************************************************)
(* C12: a data packet sent again with the sequence number of the data      *)
(* packet accepted last fails the sequence check: it is answered with      *)
(* exactly NAK, no callback event is made for it (each data packet has     *)
(* been delivered once), packetsReceived and the status stay as they were. *)
(***************************************************************************)
C12_RetransmissionRefused ==
    ScriptDone =>
        /\ ret = YMODEM_TX_PENDING
        /\ serialOut = << <<NAK>> >>
        /\ sinkLog = << >>
        /\ Len(evLog) = Len(script.all) - 1
        /\ \A i \in 2..Len(evLog) : evLog[i].e = YMODEM_FILE_CB_DATA
        /\ ymodem.packetsReceived = Len(script.all) - 1
        /\ ymodem.nextStatus = YMODEM_OK
        /\ Awaiting

\* the second data packet, 1024 bytes, was sent twice
C12_Witness ==
    /\ ScriptDone
    /\ wire.seq = 2 /\ wire.lead = STX /\ wire.defect = "none"
    /\ script.all[Len(script.all) - 1] = script.all[Len(script.all)]
    /\ ymodem.packetData[YM_PACKET_SEQNO_INDEX] = 2
    /\ Len(evLog) = 3
    /\ serialOut = << <<NAK>> >>

(***************************************************************************)
(* C13: a ymodem_Init call on a session that is already initialized, in    *)
(* any state and with any serial write function as argument (the one       *)
(* configured, another one, NULL), changes no field of the session, writes *)
(* nothing and calls nothing back.                                         *)
(***************************************************************************)
C13_InitGuard ==
    [][ op' = "ymodem_Init" /\ ymodem.initialized = YM_INSTANCE_INIT_MASK
            => ymodem' = ymodem /\ serialOut' = << >> /\ sinkLog' = << >> ]_vars

\* ymodem_Init was called again in mid-packet, after the metadata packet
C13_Witness ==
    /\ op = "ymodem_Init"
    /\ ymodem.startOfPacket = 0
    /\ ymodem.packetBytes = MaxCallDepth
    /\ ymodem.packetsReceived = 1
    /\ ymodem.fileName[0] = MetaPayload[0]
    /\ ymodem.serialWriteFxn = SerialWrite

(***************************************************************************)
(* C14: a packet that passes the complement, sequence and checksum checks  *)
(* on a session that has accepted its metadata packet (no EOT seen) is     *)
(* handed to the callback as exactly one data event, data pointing to      *)
(* packet offset 3 and len being 128 if the packet started with SOH and    *)
(* 1024 if it started with STX, the len bytes there being the payload the  *)
(* sender sent; when the callback succeeds, packetsReceived increases by   *)
(* one and the reply is exactly ACK.                                       *)
(***************************************************************************)
SentSize == IF wire'.lead = SOH THEN 128 ELSE 1024

C14_DataDelivery ==
    [][ /\ CompletesPacket
        /\ ymodem.eotReceived = 0
        /\ ymodem.packetsReceived >= 1
        /\ wire'.lead \in {SOH, STX}
        /\ WellFormed(ymodem', ymodem.packetsReceived)
        => /\ sinkLog' = << Event(YMODEM_FILE_CB_DATA,
                                  Ptr("packetData", YM_PACKET_HEADER), U32(SentSize)) >>
           /\ Bytes(ymodem'.packetData, YM_PACKET_HEADER, SentSize)
                 = Bytes(Payloads[wire'.t], 0, SentSize)
           /\ sinkAns' = YMODEM_OK
                 => /\ ymodem'.packetsReceived = ymodem.packetsReceived + 1
                    /\ Sent(<<ACK>>)
                    /\ ret' = YMODEM_TX_PENDING
                    /\ ymodem'.nextStatus = YMODEM_OK ]_vars

\* the second data packet, 1024 bytes, has been delivered
C14_Witness ==
    /\ op = "ymodem_ReceiveByte"
    /\ wire.lead = STX /\ wire.seq = 2
    /\ sinkLog = << Event(YMODEM_FILE_CB_DATA, Ptr("packetData", YM_PACKET_HEADER),
                          U32(YM_PACKET_1K_SIZE)) >>
    /\ ymodem.packetData[YM_PACKET_HEADER + YM_PACKET_1K_SIZE - 1] = 90
    /\ serialOut = << <<ACK>> >>
    /\ ymodem.packetsReceived = 3

(***************************************************************************)
(* C15: an EOT byte received while awaiting a packet start sets            *)
(* eotReceived and is answered with exactly ACK C; eotReceived then stays  *)
(* set through every call but ymodem_Reset; and with eotReceived set, the  *)
(* next packet that passes the complement check, whatever its sequence     *)
(* number and checksum, ends the session: the only callback event is the   *)
(* end event, the reply is exactly ACK and the status becomes complete.    *)
(***************************************************************************)
C15_EndOfTransmission ==
    [][ /\ Awaiting /\ ReceiveByteCall /\ inByte' = EOT
            => /\ ymodem'.eotReceived = 1
               /\ Sent(<<ACK, CRC16>>)
               /\ ret' = YMODEM_TX_PENDING
               /\ ymodem'.nextStatus = YMODEM_OK
               /\ sinkLog' = << >>
        /\ ymodem.eotReceived = 1 /\ op' # "ymodem_Reset"
            => ymodem'.eotReceived = 1
        /\ CompletesPacket /\ ymodem.eotReceived = 1 /\ CompOk(ymodem')
            => /\ sinkLog' = << Event(YMODEM_FILE_CB_END, NullPtr, U32(0)) >>
               /\ Sent(<<ACK>>)
               /\ ret' = YMODEM_TX_PENDING
               /\ ymodem'.nextStatus = YMODEM_COMPLETE
               /\ ymodem'.packetsReceived = ymodem.packetsReceived ]_vars

\* after EOT, a packet with a wrong sequence number has ended the session
C15_Witness ==
    /\ op = "ymodem_ReceiveByte"
    /\ wire.defect = "seq"
    /\ ymodem.eotReceived = 1
    /\ ymodem.packetsReceived = 1
    /\ Notified(sinkLog, YMODEM_FILE_CB_END)
    /\ serialOut = << <<ACK>> >>
    /\ ymodem.nextStatus = YMODEM_COMPLETE

(***************************************************************************)
(* C16: a leading SOH (STX) byte starts a packet of 128 (1024) payload     *)
(* bytes: the framer takes exactly the 128 + 4 (1024 + 4) bytes sent after *)
(* it as that packet.  Each of them but the last is stored, whatever its   *)
(* value, with return value YMODEM_OK, no serial write and no callback     *)
(* event; the last one is answered (with NAK when the complement check     *)
(* fails) and leaves the framer awaiting a packet start with packetBytes = *)
(* 0.  In every state packetBytes <= packetSize + 5 <= the size of         *)
(* packetData, and awaiting a packet start implies packetBytes = 0.        *)
(***************************************************************************)
FramingInvariant ==
    /\ ymodem.packetBytes <= ymodem.packetSize + YM_PACKET_OVERHEAD
    /\ ymodem.packetSize + YM_PACKET_OVERHEAD <= YM_PACKET_1K_OVRHD_SIZE
    /\ ymodem.startOfPacket # 0 => ymodem.packetBytes = 0

Stored ==
    /\ ret' = YMODEM_OK
    /\ serialOut' = << >>
    /\ sinkLog' = << >>
    /\ ymodem' = [ymodem EXCEPT !.packetData[ymodem.packetBytes] = inByte',
                                !.packetBytes = ymodem.packetBytes + 1,
                                !.prevC = inByte',
                                !.payloadLen = 0]

C16_Framing ==
    [][ /\ FramingInvariant'
        /\ Awaiting /\ ReceiveByteCall /\ inByte' \in {SOH, STX}
            => /\ ret' = YMODEM_OK /\ serialOut' = << >> /\ sinkLog' = << >>
               /\ ymodem'.startOfPacket = 0
               /\ ymodem'.packetBytes = 1
               /\ ymodem'.packetSize = (IF inByte' = SOH THEN 128 ELSE 1024)
        /\ MidPacket /\ ReceiveByteCall
            => /\ LastByteNext <=> script.pos = ymodem.packetSize + 4
               /\ script.pos = ymodem.packetBytes
               /\ ~LastByteNext => Stored
               /\ LastByteNext
                    => /\ ymodem'.startOfPacket = 1
                       /\ ymodem'.packetBytes = 0
                       /\ Len(serialOut') = 1
                       /\ ymodem'.packetData[ymodem.packetBytes] = inByte'
                       /\ ~CompOk(ymodem') => Sent(<<NAK>>) /\ sinkLog' = << >>
      ]_vars

\* two CA bytes and 'A' were stored as payload of a 1024-byte packet
C16_Witness ==
    /\ op = "ymodem_ReceiveByte"
    /\ ret = YMODEM_OK
    /\ inByte = ABORT1
    /\ ymodem.packetSize = YM_PACKET_1K_SIZE
    /\ ymodem.startOfPacket = 0
    /\ ymodem.packetBytes = 6
    /\ ymodem.packetData[3] = CA /\ ymodem.packetData[4] = CA
    /\ ymodem.packetData[5] = ABORT1
    /\ ymodem.nextStatus = YMODEM_OK

(***************************************************************************)
(* C17: every byte ymodem_ReceiveByte processes while the status is        *)
(* YMODEM_OK becomes prevC, whatever the outcome.  A CA byte received      *)
(* while a packet start is awaited is a confirmed abort (C is sent, the    *)
(* status becomes YMODEM_ABORTED) exactly when the byte received just      *)
(* before it was CA, the last checksum byte of a packet included; any      *)
(* other CA returns YMODEM_OK, sends nothing, and changes prevC and the    *)
(* reply length payloadLen (to 0) only.                                    *)
(***************************************************************************)
PrecededByCancel == op = "ymodem_ReceiveByte" /\ inByte = CA

ConfirmedAbort ==
    /\ ret' = YMODEM_TX_PENDING
    /\ Sent(<<CRC16>>)
    /\ sinkLog' = << >>
    /\ ymodem'.nextStatus = YMODEM_ABORTED

LoneCancel(after) ==
    /\ ret' = YMODEM_OK
    /\ serialOut' = << >>
    /\ sinkLog' = << >>
    /\ ymodem' = after

PreviousByte(lone) ==
    /\ Nominal /\ ReceiveByteCall => ymodem'.prevC = inByte'
    /\ Awaiting /\ ReceiveByteCall /\ inByte' = CA
        => IF PrecededByCancel THEN ConfirmedAbort ELSE lone

\* as stated: a lone CA changes prevC only
C17_Original == [][PreviousByte(LoneCancel([ymodem EXCEPT !.prevC = CA]))]_vars

C17_PreviousByte ==
    [][PreviousByte(LoneCancel([ymodem EXCEPT !.prevC = CA, !.payloadLen = 0]))]_vars

\* one CA after an accepted packet whose last byte is CA
C17_Witness ==
    /\ op = "ymodem_ReceiveByte"
    /\ inByte = CA
    /\ ret = YMODEM_TX_PENDING
    /\ ymodem.nextStatus = YMODEM_ABORTED
    /\ ymodem.packetsReceived = 2
    /\ wire = CancelByte
    /\ script.all[script.at - 2].t = "tail"
    /\ ymodem.packetData[YM_PACKET_HEADER + YM_PACKET_SIZE + 1] = CA
    /\ txLog[Len(txLog) - 1] = <<ACK>>

(***************************************************************************)
(* C18: the sequence byte of a packet is compared with the number of       *)
(* accepted packets modulo 256, so the packet after 256 accepted ones must *)
(* carry 0 again.  That packet goes to the callback as data, whatever it   *)
(* holds; only the packet accepted when the count is 0 is parsed as        *)
(* metadata.  A packet with another number is answered NAK.                *)
(***************************************************************************)
PacketArrives == Awaiting /\ ymodem.eotReceived = 0 /\ ReceiveByteCall

C18_SequenceWrap ==
    [][ PacketArrives =>
          /\ wire'.seq # ymodem.packetsReceived % 256
                => /\ Sent(<<NAK>>)
                   /\ sinkLog' = << >>
                   /\ ymodem'.packetsReceived = ymodem.packetsReceived
          /\ wire'.seq = ymodem.packetsReceived % 256 /\ ymodem.packetsReceived = 0
                => /\ Notified(sinkLog', YMODEM_FILE_CB_NAME)
                   /\ ymodem'.packetsReceived = 1
          /\ wire'.seq = ymodem.packetsReceived % 256 /\ ymodem.packetsReceived > 0
                => /\ sinkLog' = << Event(YMODEM_FILE_CB_DATA,
                                          Ptr("packetData", YM_PACKET_HEADER),
                                          U32(YM_PACKET_SIZE)) >>
                   /\ Sent(<<ACK>>)
                   /\ ymodem'.packetsReceived = ymodem.packetsReceived + 1
      ]_vars

\* the 257th accepted packet carried number 0 and a metadata payload, and
\* went to the callback as data
C18_Witness ==
    /\ ymodem.packetsReceived = 257
    /\ wire.seq = 0 /\ wire.t = "meta"
    /\ Len(sinkLog) = 1 /\ sinkLog[1].e = YMODEM_FILE_CB_DATA
    /\ serialOut = << <<ACK>> >>
    /\ Len(evLog) = 257
    /\ \A i \in 2..257 : evLog[i].e = YMODEM_FILE_CB_DATA

(***************************************************************************)
(* C19 as stated: whatever the payload of an accepted first packet, the    *)
(* metadata parser writes fileName[0..YM_FILE_NAME_LENGTH-1] and           *)
(* fileSizeStr[0..YM_FILE_SIZE_LENGTH-1] only, terminators included, and   *)
(* reads inside packetData only.  (It fails: fileName[i++] = 0 after a     *)
(* name of YM_FILE_NAME_LENGTH bytes and fileSizeStr[i++] = 0 after a size *)
(* of YM_FILE_SIZE_LENGTH bytes write one past the end.)                   *)
(***************************************************************************)
\* the highest index of pd the two loops of the parser read
LastRead(pd, n) ==
    YM_PACKET_HEADER + n + 1
        + CopyLen(pd, YM_PACKET_HEADER + n + 1, 0, YM_FILE_SIZE_LENGTH, 32)

MetadataParsed == op = "ymodem_ReceiveByte" /\ Notified(sinkLog, YMODEM_FILE_CB_NAME)

C19_ParserBounds ==
    /\ overrun = {}
    /\ MetadataParsed
        => LastRead(ymodem.packetData,
                    CopyLen(ymodem.packetData, YM_PACKET_HEADER, 0,
                            YM_FILE_NAME_LENGTH, 0)) < YM_PACKET_1K_OVRHD_SIZE

\* a 1024-byte first packet without NUL or space on a new session: both
\* terminators were written past the end, and the name's terminator was then
\* overwritten by the size
C19_Witness ==
    /\ MetadataParsed
    /\ script.all = << Packet(STX, "more", 0, "none") >>
    /\ overrun = {"fileName", "fileSizeStr"}
    /\ \A j \in 0..(YM_FILE_NAME_LENGTH - 1) : ymodem.fileName[j] # 0
    /\ \A j \in 0..(YM_FILE_SIZE_LENGTH - 1) : ymodem.fileSizeStr[j] # 0
    /\ ymodem.packetsReceived = 1

(***************************************************************************)
(* C20: crc16 over size bytes returns their CRC-16/XMODEM (polynomial      *)
(* 0x1021, register 0 at the start, highest bit first, no final XOR), and  *)
(* ymodem_CheckCRC returns YM_OK exactly when the two bytes after the      *)
(* payload are the CRC-16/XMODEM of the packetSize bytes that follow the   *)
(* 3-byte header, high byte first, then low byte.                          *)
(***************************************************************************)
C20_Checksum ==
    /\ op = "crc16"
        => ret.crc = XmodemCRC(0, ymodem.packetData, YM_PACKET_HEADER, ret.size)
    /\ op = "ymodem_CheckCRC"
        => (ret = YM_OK <=> CrcOk(ymodem))

\* a 1024-byte packet whose checksum bytes differ was accepted
C20_Witness ==
    /\ op = "ymodem_CheckCRC"
    /\ ret = YM_OK
    /\ ymodem.packetSize = YM_PACKET_1K_SIZE
    /\ ymodem.packetData[YM_PACKET_HEADER] = 255
    /\ ymodem.packetData[YM_PACKET_HEADER + YM_PACKET_1K_SIZE]
          # ymodem.packetData[YM_PACKET_HEADER + YM_PACKET_1K_SIZE + 1]

(***************************************************************************)
(* C21: Str2Int accepts (returns 1 for) a NUL-terminated string exactly    *)
(* when it has at most 10 bytes before the NUL and all of them are decimal *)
(* digits; then the number they write, modulo 2^32, is stored in *intnum.  *)
(* A string with a non-digit before the NUL or with 11 or more digits is   *)
(* rejected (0 is returned) and *intnum keeps its earlier value.           *)
(***************************************************************************)
\* the number the digits buf[j], .., buf[n - 1] write, added to acc * 10^(n-j),
\* in three 16-bit limbs (no truncation for up to 10 digits)
RECURSIVE Written(_, _, _, _)
Written(buf, j, n, acc) ==
    IF j >= n THEN acc
    ELSE LET l0 == acc.l0 * 10 + (buf[j] - 48)
             l1 == acc.l1 * 10 + l0 \div 65536
             l2 == acc.l2 * 10 + l1 \div 65536
             next == [l2 |-> l2, l1 |-> l1 % 65536, l0 |-> l0 % 65536]
         IN  IF next.l0 < 0 THEN acc ELSE Written(buf, j + 1, n, next)

Modulo2to32(v) == [hi |-> v.l1, lo |-> v.l0]

AllDigits(buf, n) == \A j \in 0..(n - 1) : buf[j] \in 48..57

Str2IntCorrect(buf, n) ==
    IF n <= 10 /\ AllDigits(buf, n)
    THEN /\ ret' = 1
         /\ ymodem'.fileSize
              = Modulo2to32(Written(buf, 0, n, [l2 |-> 0, l1 |-> 0, l0 |-> 0]))
    ELSE /\ ret' = 0
         /\ ymodem'.fileSize = ymodem.fileSize

C21_Str2Int ==
    [][ op' = "Str2Int"
          => /\ Str2IntCorrect(ymodem.fileSizeStr,
                               StrEnd(ymodem.fileSizeStr, 0, YM_FILE_SIZE_LENGTH))
             /\ ymodem' = [ymodem EXCEPT !.fileSize = ymodem'.fileSize] ]_vars

\* "9999999999" was accepted as 9999999999 - 2 * 2^32 = 1410065407
C21_Witness ==
    /\ op = "Str2Int"
    /\ ret = 1
    /\ \A j \in 0..9 : ymodem.fileSizeStr[j] = 57
    /\ ymodem.fileSizeStr[10] = 0
    /\ ymodem.fileSize = [hi |-> 21515, lo |-> 58367]

(***************************************************************************)
(* C22: a ymodem_ReceiveByte call that finds the status YMODEM_OK returns  *)
(* YMODEM_OK or YMODEM_TX_PENDING, also when it sets a terminal status     *)
(* (then it returns YMODEM_TX_PENDING).  When it returns YMODEM_OK the     *)
(* serial write function is not called; when it returns YMODEM_TX_PENDING  *)
(* the reply has 1 or 2 bytes and the serial write function is called once *)
(* with it, provided the session was initialized with one: with NULL       *)
(* nothing is called and the reply stays in payloadTx.                     *)
(***************************************************************************)
Pending == [i \in 1..ymodem'.payloadLen |-> ymodem'.payloadTx[i - 1]]

ReturnsReply(written) ==
    Nominal /\ ReceiveByteCall
        => /\ ret' \in {YMODEM_OK, YMODEM_TX_PENDING}
           /\ ymodem'.nextStatus # YMODEM_OK => ret' = YMODEM_TX_PENDING
           /\ ret' = YMODEM_OK => serialOut' = << >>
           /\ ret' = YMODEM_TX_PENDING
                => /\ ymodem'.payloadLen \in {1, 2}
                   /\ serialOut' = (IF written THEN << Pending >> ELSE << >>)

\* as stated: the write function is called once whenever YMODEM_TX_PENDING
\* is returned
C22_Original == [][ReturnsReply(TRUE)]_vars

C22_Replies == [][ReturnsReply(ymodem.serialWriteFxn # NULL)]_vars

\* the call in which the callback refused the data: CA CA written once,
\* YMODEM_TX_PENDING returned, the status set for the calls after it
C22_Witness ==
    /\ op = "ymodem_ReceiveByte"
    /\ ret = YMODEM_TX_PENDING
    /\ ymodem.serialWriteFxn = SerialWrite
    /\ ymodem.nextStatus = YMODEM_WRITE_ERR
    /\ serialOut = << <<CA, CA>> >>
    /\ Notified(sinkLog, YMODEM_FILE_CB_DATA)

(***************************************************************************)
(* C23 as stated: the callback events of a session are a beginning of: one *)
(* YMODEM_FILE_CB_NAME, any number of YMODEM_FILE_CB_DATA, one             *)
(* YMODEM_FILE_CB_END.  No data or end event and no status YMODEM_COMPLETE *)
(* comes before a name event the callback accepted, there is no second     *)
(* name event, and nothing follows the end event.  (It fails: after an EOT *)
(* byte the next packet gives the end event and YMODEM_COMPLETE, also in a *)
(* session that has not received a first packet.)                          *)
(***************************************************************************)
NameFirst(log) == \A i \in DOMAIN log : log[i].e = YMODEM_FILE_CB_NAME <=> i = 1
EndLast(log) == \A i \in DOMAIN log : log[i].e = YMODEM_FILE_CB_END => i = Len(log)
OnlyDataBetween(log) ==
    \A i \in DOMAIN log :
        log[i].e \in {YMODEM_FILE_CB_NAME, YMODEM_FILE_CB_DATA, YMODEM_FILE_CB_END}
NameAccepted == evLog # << >> /\ evLog[1].e = YMODEM_FILE_CB_NAME /\ script.sink = YMODEM_OK

C23_EventOrder ==
    /\ NameFirst(evLog)
    /\ EndLast(evLog)
    /\ OnlyDataBetween(evLog)
    /\ Len(evLog) >= 2 => NameAccepted
    /\ ymodem.nextStatus = YMODEM_COMPLETE => NameAccepted

\* EOT, then a metadata packet: the only event of the session is the end
\* event, and the status is YMODEM_COMPLETE
C23_Witness ==
    /\ script.all = << EotByte, Packet(SOH, "meta", 0, "none") >>
    /\ ScriptDone
    /\ Len(evLog) = 1 /\ evLog[1].e = YMODEM_FILE_CB_END
    /\ ymodem.nextStatus = YMODEM_COMPLETE
    /\ ymodem.packetsReceived = 0
    /\ txLog = << <<ACK, CRC16>>, <<ACK>> >>

=============================================================================
